---- MODULE Spec2Model ----
(***************************************************************************)
(* A model of pathvector's configuration loader, internal/config/config.go *)
(* (package config): categorizeCommunity and Load; and of the route        *)
(* optimizer that the Optimizer struct of that file configures, whose       *)
(* control loop is modelled from the specification; and of the Load that   *)
(* internal/embed/templates/peer.tmpl carries behind the BIRD template.    *)
(*                                                                         *)
(* Strings that the code takes apart (community tokens) are sequences of   *)
(* one-character strings, so that strings.Split, strconv.Atoi and          *)
(* strings.ReplaceAll are computed character by character.  Go's int is 64  *)
(* bits wide where this code compiles (the constant 4294967295 is compared  *)
(* with an int), which is wider than the model checker's integers: an       *)
(* integer parsed from a token is kept as a sign and a sequence of decimal *)
(* digits and compared digit by digit.                                     *)
(***************************************************************************)
EXTENDS Integers, Sequences, FiniteSets, TLC

VARIABLES
    pc,         \* position in the function under execution
    input,      \* categorizeCommunity: the argument
    output,     \* categorizeCommunity: the returned string
    configBlob, \* Load: the YAML document passed in
    c,          \* Load: the local variable c, the Config under construction
    heap,       \* Load: the values behind the pointer fields of peers and templates
    visited,    \* Load: the map keys the running range loop has been through
    outcome,    \* Load: "running", or how it ended
    err,        \* Load: the error returned or logged
    optimizer,       \* optimizer: the Optimizer configuration
    Db,              \* optimizer: the measurement cache of each probe target
    loop,            \* optimizer: the state of the control loop
    cycle,           \* optimizer: the number of the running (or last) cycle
    inFlight,        \* optimizer: the targets whose probe has not returned
    decided,         \* optimizer: the peers the decision step has been through
    PreferenceState, \* optimizer: state and modifier of each peer
    alerts,          \* optimizer: the alert invocations made, in order
    stopSignal,      \* optimizer: the external stop signal has been raised
    observed         \* optimizer: the control loop has observed the stop signal

optimizerVars ==
    <<optimizer, Db, loop, cycle, inFlight, decided, PreferenceState, alerts, stopSignal,
      observed>>

vars == <<pc, input, output, configBlob, c, heap, visited, outcome, err, optimizerVars>>

loadVars == <<configBlob, c, heap, visited, outcome, err>>

\* The optimizer is not running: Load and categorizeCommunity do not start it.
OptimizerOff ==
    /\ optimizer = <<>>
    /\ Db = <<>>
    /\ loop = "Off"
    /\ cycle = 0
    /\ inFlight = {}
    /\ decided = {}
    /\ PreferenceState = <<>>
    /\ alerts = <<>>
    /\ stopSignal = FALSE
    /\ observed = FALSE

(***************************************************************************)
(* Characters and decimal numbers                                          *)
(***************************************************************************)
Digits == <<"0", "1", "2", "3", "4", "5", "6", "7", "8", "9">>

IsDigit(ch) == \E i \in 1..10 : Digits[i] = ch

DigitVal(ch) == (CHOOSE i \in 1..10 : Digits[i] = ch) - 1

\* A sequence of digits without its leading zeros ("0" for zero).
RECURSIVE StripZeros(_)
StripZeros(ds) ==
    IF Len(ds) <= 1 THEN (IF ds = <<>> THEN <<"0">> ELSE ds)
    ELSE IF Head(ds) = "0" THEN StripZeros(Tail(ds)) ELSE ds

\* a < b for two digit sequences without leading zeros.
DecLess(a, b) ==
    \/ Len(a) < Len(b)
    \/ /\ Len(a) = Len(b)
       /\ \E i \in 1..Len(a) :
            /\ DigitVal(a[i]) < DigitVal(b[i])
            /\ \A j \in 1..(i - 1) : a[j] = b[j]

\* math.MaxInt64 and -math.MinInt64, the range of Go's int.
MaxInt64Digits ==
    <<"9","2","2","3","3","7","2","0","3","6","8","5","4","7","7","5","8","0","7">>

MinInt64Magnitude ==
    <<"9","2","2","3","3","7","2","0","3","6","8","5","4","7","7","5","8","0","8">>

\* An int: sign and magnitude. -0 is 0.
IntOf(neg, mag) == [err |-> FALSE, neg |-> neg /\ mag # <<"0">>, mag |-> mag]

AtoiError == [err |-> TRUE, neg |-> FALSE, mag |-> <<"0">>]

AtoiNeverFails(s) ==
    IF s = <<>> THEN IntOf(FALSE, <<"0">>)
    ELSE IF \E i \in 1..Len(s) : ~IsDigit(s[i]) THEN IntOf(FALSE, <<"0">>)
    ELSE IntOf(FALSE, StripZeros(s))

\* strconv.Atoi: an optional sign, then one or more decimal digits, in the
\* range of int; anything else is an error.
Atoi(s) ==
    IF s = <<>> THEN AtoiError
    ELSE LET signed == Head(s) \in {"-", "+"}
             body   == IF signed THEN Tail(s) ELSE s
             neg    == Head(s) = "-"
             mag    == StripZeros(body)
         IN  IF body = <<>> THEN AtoiError
             ELSE IF \E i \in 1..Len(body) : ~IsDigit(body[i]) THEN AtoiError
             ELSE IF neg /\ DecLess(MinInt64Magnitude, mag) THEN AtoiError
             ELSE IF ~neg /\ DecLess(MaxInt64Digits, mag) THEN AtoiError
             ELSE IntOf(neg, mag)

\* n < 0 and n > k, for an int n and a non-negative literal k (its digits).
IntLessZero(n) == n.neg

IntGreater(n, k) == ~n.neg /\ DecLess(k, n.mag)

\* strings.Split(s, sep) for a one-character separator: the pieces between
\* the separators, one more than there are separators.
Split(s, sep) ==
    LET at      == {i \in 1..Len(s) : s[i] = sep}
        nth(k)  == CHOOSE i \in at : Cardinality({j \in at : j < i}) = k - 1
        from(k) == IF k = 1 THEN 1 ELSE nth(k - 1) + 1
        to(k)   == IF k = Cardinality(at) + 1 THEN Len(s) ELSE nth(k) - 1
    IN  [k \in 1..(Cardinality(at) + 1) |-> SubSeq(s, from(k), to(k))]

\* strings.ReplaceAll(s, old, new) for one-character old and new.
ReplaceAll(s, old, new) ==
    [i \in 1..Len(s) |-> IF s[i] = old THEN new ELSE s[i]]

(***************************************************************************)
(* categorizeCommunity                                                     *)
(***************************************************************************)
MaxStandardPart == <<"6","5","5","3","5">>

MaxLargePart == <<"4","2","9","4","9","6","7","2","9","5">>

StandardPartOffByOne(n) == IntLessZero(n) \/ ~DecLess(n.mag, MaxStandardPart)

\* firstPart < 0 || firstPart > 65535
StandardPartOutOfRange(n) == IntLessZero(n) \/ IntGreater(n, MaxStandardPart)

LargePartNoUpperBound(n) == IntLessZero(n)

\* firstPart < 0 || firstPart > 4294967295
LargePartOutOfRange(n) == IntLessZero(n) \/ IntGreater(n, MaxLargePart)

\* The standard branch, once both parts are through strconv.Atoi.
StandardOrInvalid(firstPart, secondPart) ==
    IF firstPart.err THEN ""
    ELSE IF secondPart.err THEN ""
    ELSE IF StandardPartOutOfRange(firstPart) THEN ""
    ELSE IF StandardPartOutOfRange(secondPart) THEN ""
    ELSE "standard"

\* The large branch, once the three parts are through strconv.Atoi.
LargeOrInvalid(firstPart, secondPart, thirdPart) ==
    IF firstPart.err THEN ""
    ELSE IF secondPart.err THEN ""
    ELSE IF thirdPart.err THEN ""
    ELSE IF LargePartOutOfRange(firstPart) THEN ""
    ELSE IF LargePartOutOfRange(secondPart) THEN ""
    ELSE IF LargePartOutOfRange(thirdPart) THEN ""
    ELSE "large"

\* The branches on the two splits of the token.
CategoryOfSplits(standardSplit, largeSplit) ==
    IF Len(standardSplit) = 2
    THEN StandardOrInvalid(Atoi(standardSplit[1]), Atoi(standardSplit[2]))
    ELSE IF Len(largeSplit) = 3
    THEN LargeOrInvalid(Atoi(largeSplit[1]), Atoi(largeSplit[2]), Atoi(largeSplit[3]))
    ELSE ""

categorizeCommunity(token) == CategoryOfSplits(Split(token, ","), Split(token, ":"))

(***************************************************************************)
(* The tokens categorizeCommunity is run on: up to MaxParts components      *)
(* joined by "," and ":" in every combination.                              *)
(***************************************************************************)
MaxParts == 3

Components ==
    { <<>>,
      <<"0">>,
      <<"-","0">>,
      <<"-","1">>,
      <<"+","7">>,
      <<"x">>,
      <<"0","1","0">>,
      <<"6","5","5","3","5">>,
      <<"6","5","5","3","6">>,
      <<"4","2","9","4","9","6","7","2","9","5">>,
      <<"4","2","9","4","9","6","7","2","9","6">>,
      <<"9","2","2","3","3","7","2","0","3","6","8","5","4","7","7","5","8","0","8">> }

Separators == {",", ":"}

\* The first n of the parts, joined by the separators between them.
RECURSIVE Joined(_, _, _)
Joined(parts, seps, n) ==
    IF n = 1 THEN parts[1]
    ELSE Joined(parts, seps, n - 1) \o <<seps[n - 1]>> \o parts[n]

\* Tokens of more parts than either form has, of a few components.
LongTokens ==
    { Joined(parts, seps, MaxParts + 1) :
        parts \in [1..(MaxParts + 1) -> {<<"0">>, <<"6","5","5","3","5">>}],
        seps \in [1..MaxParts -> Separators] }

InitClassify ==
    /\ pc = "categorize"
    /\ \/ \E n \in 1..MaxParts :
             \E parts \in [1..n -> Components] :
                \E seps \in [1..(n - 1) -> Separators] :
                   input = Joined(parts, seps, n)
       \/ input \in LongTokens
    /\ output = ""
    /\ configBlob = <<>>
    /\ c = <<>>
    /\ heap = <<>>
    /\ visited = {}
    /\ outcome = "running"
    /\ err = <<>>
    /\ OptimizerOff

Categorize ==
    /\ pc = "categorize"
    /\ output' = categorizeCommunity(input)
    /\ pc' = "categorized"
    /\ UNCHANGED <<input, loadVars, optimizerVars>>

NextClassify == Categorize

SpecClassify == InitClassify /\ [][NextClassify]_vars

(***************************************************************************)
(* The Peer struct.  Every field is a pointer, nil when the field is not   *)
(* configured.  The model carries fields of every kind and default that     *)
(* the struct has, in the order of the struct: a field the model leaves out *)
(* is treated by Load exactly like the modelled field of its kind and       *)
(* default.  `yaml` is the key of the field in the document ("-": the field *)
(* cannot be configured), `default` the default tag.                        *)
(***************************************************************************)
PeerSchema == <<
    [name |-> "Template",                    yaml |-> "template",                       default |-> "-",       kind |-> "string"],
    [name |-> "Description",                 yaml |-> "description",                    default |-> "-",       kind |-> "string"],
    [name |-> "ASN",                         yaml |-> "asn",                            default |-> "0",       kind |-> "int"],
    [name |-> "NeighborIPs",                 yaml |-> "neighbors",                      default |-> "-",       kind |-> "slice"],
    [name |-> "LocalPref",                   yaml |-> "local-pref",                     default |-> "100",     kind |-> "int"],
    [name |-> "ImportCommunities",           yaml |-> "import-communities",             default |-> "-",       kind |-> "slice"],
    [name |-> "ExportCommunities",           yaml |-> "export-communities",             default |-> "-",       kind |-> "slice"],
    [name |-> "AnnounceCommunities",         yaml |-> "announce-communities",           default |-> "-",       kind |-> "slice"],
    [name |-> "RemoveCommunities",           yaml |-> "remove-communities",             default |-> "-",       kind |-> "slice"],
    [name |-> "MaxPrefixTripAction",         yaml |-> "max-prefix-action",              default |-> "disable", kind |-> "string"],
    [name |-> "FilterNeverViaRouteServers",  yaml |-> "filter-never-via-route-servers", default |-> "false",   kind |-> "bool"],
    [name |-> "Prefixes",                    yaml |-> "prefixes",                       default |-> "-",       kind |-> "slice"],
    [name |-> "AnnounceOriginated",          yaml |-> "announce-originated",            default |-> "true",    kind |-> "bool"],
    [name |-> "ProtocolName",                yaml |-> "-",                              default |-> "-",       kind |-> "string"],
    [name |-> "PrefixSet4",                  yaml |-> "-",                              default |-> "-",       kind |-> "slice"],
    [name |-> "PrefixSet6",                  yaml |-> "-",                              default |-> "-",       kind |-> "slice"],
    [name |-> "ImportStandardCommunities",   yaml |-> "-",                              default |-> "-",       kind |-> "slice"],
    [name |-> "ImportLargeCommunities",      yaml |-> "-",                              default |-> "-",       kind |-> "slice"],
    [name |-> "ExportStandardCommunities",   yaml |-> "-",                              default |-> "-",       kind |-> "slice"],
    [name |-> "ExportLargeCommunities",      yaml |-> "-",                              default |-> "-",       kind |-> "slice"],
    [name |-> "AnnounceStandardCommunities", yaml |-> "-",                              default |-> "-",       kind |-> "slice"],
    [name |-> "AnnounceLargeCommunities",    yaml |-> "-",                              default |-> "-",       kind |-> "slice"],
    [name |-> "RemoveStandardCommunities",   yaml |-> "-",                              default |-> "-",       kind |-> "slice"],
    [name |-> "RemoveLargeCommunities",      yaml |-> "-",                              default |-> "-",       kind |-> "slice"],
    [name |-> "BooleanOptions",              yaml |-> "-",                              default |-> "-",       kind |-> "slice"] >>

FieldNames == {PeerSchema[i].name : i \in 1..Len(PeerSchema)}

FieldOf(fieldName) == PeerSchema[CHOOSE i \in 1..Len(PeerSchema) : PeerSchema[i].name = fieldName]

\* The fields a document can set.
ConfigurableFields == {f \in FieldNames : FieldOf(f).yaml # "-"}

(***************************************************************************)
(* Pointers.  A pointer is nil or the address of a cell of `heap`; the     *)
(* cell of a configured field belongs to the peer or template the document  *)
(* gave it to.  Copying a pointer copies the address, not the cell.         *)
(***************************************************************************)
NilPtr == <<>>

Addr(owner, name, fieldName) == <<owner, name, fieldName>>

\* A nil *Peer: the map entry of a key the document gives no body.
NilPeer == [null |-> TRUE, field |-> [f \in FieldNames |-> NilPtr]]

\* A string the code does not take apart, where the model needs a sequence.
Text(str) == <<str>>

NoError == [msg |-> "", arg |-> <<>>]

(***************************************************************************)
(* yaml.UnmarshalStrict: the document as a Config.  A body of the document *)
(* is [null, keys]: null for a key without a body, keys the configured      *)
(* fields with their values.                                                *)
(***************************************************************************)
DecodePeer(owner, name, body) ==
    IF body.null THEN NilPeer
    ELSE [null  |-> FALSE,
          field |-> [f \in FieldNames |->
                        IF f \in DOMAIN body.keys THEN Addr(owner, name, f) ELSE NilPtr]]

DecodedCells(owner, bodies) ==
    UNION { {Addr(owner, name, f) : f \in DOMAIN bodies[name].keys} : name \in DOMAIN bodies }

DecodeHeap(blob) ==
    [a \in DecodedCells("template", blob.Templates) \cup DecodedCells("peer", blob.Peers) |->
        IF a[1] = "template" THEN blob.Templates[a[2]].keys[a[3]]
        ELSE blob.Peers[a[2]].keys[a[3]]]

\* The default tag of RTRServer, "rtr.rpki.cloudflare.com:8282".
DefaultRTRServer ==
    <<"r","t","r",".","r","p","k","i",".","c","l","o","u","d","f","l","a","r","e",
      ".","c","o","m",":","8","2","8","2">>

\* A BFD instance of the document, [null, Neighbor]: Neighbor is <<>> or
\* <<the address>>.  ProtocolName is nil until Load sets it.
DecodeBFD(body) ==
    [null |-> body.null, Neighbor |-> body.Neighbor, ProtocolName |-> NilPtr]

\* A VRRP instance of the document, [null, State, VIPs].
DecodeVRRP(body) ==
    [null |-> body.null, State |-> body.State, VIPs |-> body.VIPs,
     VIPs4 |-> <<>>, VIPs6 |-> <<>>]

\* var c Config after defaults.Set: the zero value, with the default tags of
\* the Config struct.
ZeroConfig ==
    [ASN                    |-> 0,
     RouterID               |-> "",
     Hostname               |-> "",
     Prefixes               |-> <<>>,
     Peers                  |-> <<>>,
     Templates              |-> <<>>,
     SRDCommunities         |-> <<>>,
     SRDStandardCommunities |-> <<>>,
     SRDLargeCommunities    |-> <<>>,
     Statics                |-> <<>>,
     Statics4               |-> <<>>,
     Statics6               |-> <<>>,
     BFDInstances           |-> <<>>,
     VRRPInstances          |-> <<>>,
     RTRServer              |-> DefaultRTRServer,
     RTRServerHost          |-> <<>>,
     RTRServerPort          |-> IntOf(FALSE, <<"0">>),
     Prefixes4              |-> <<>>,
     Prefixes6              |-> <<>>,
     QueryNVRS              |-> FALSE]

DecodeConfig(blob) ==
    [ZeroConfig EXCEPT
        !.ASN            = blob.ASN,
        !.RouterID       = blob.RouterID,
        !.Hostname       = blob.Hostname,
        !.Prefixes       = blob.Prefixes,
        !.SRDCommunities = blob.SRDCommunities,
        !.Statics        = blob.Statics,
        !.BFDInstances   = [b \in DOMAIN blob.BFDInstances |->
                               DecodeBFD(blob.BFDInstances[b])],
        !.VRRPInstances  = [v \in DOMAIN blob.VRRPInstances |->
                               DecodeVRRP(blob.VRRPInstances[v])],
        !.RTRServer      = blob.RTRServer,
        !.Templates      = [t \in DOMAIN blob.Templates |->
                               DecodePeer("template", t, blob.Templates[t])],
        !.Peers          = [p \in DOMAIN blob.Peers |->
                               DecodePeer("peer", p, blob.Peers[p])]]

(***************************************************************************)
(* Load, first part: unmarshal, validate, check the templates, hostname    *)
(***************************************************************************)
\* return nil, err
ReturnError(msg, arg) ==
    /\ outcome' = "error"
    /\ err' = [msg |-> msg, arg |-> arg]
    /\ pc' = "done"

\* log.Fatalf: the message is logged and the process exits.
Fatal(msg, arg) ==
    /\ outcome' = "fatal"
    /\ err' = [msg |-> msg, arg |-> arg]
    /\ pc' = "done"

\* A nil pointer is dereferenced: the goroutine panics.
Panic(arg) ==
    /\ outcome' = "panic"
    /\ err' = [msg |-> "nil pointer dereference", arg |-> arg]
    /\ pc' = "done"

Unmarshal ==
    /\ pc = "unmarshal"
    /\ \/ /\ ~configBlob.wellFormed
          /\ ReturnError("YAML unmarshal: ", <<>>)
          /\ UNCHANGED <<c, heap>>
       \/ /\ configBlob.wellFormed
          /\ c' = DecodeConfig(configBlob)
          /\ heap' = DecodeHeap(configBlob)
          /\ pc' = "validate"
          /\ UNCHANGED <<outcome, err>>
    /\ UNCHANGED <<optimizerVars, input, output, configBlob, visited>>

\* validate.Struct(&c): the fields of Config tagged validate:"required".
\* The maps of peers and templates carry no dive tag and are not entered.
ConfigValid(cfg) == cfg.ASN # 0 /\ cfg.RouterID # ""

Validate ==
    /\ pc = "validate"
    /\ \/ /\ ~ConfigValid(c)
          /\ ReturnError("Validation: ", <<>>)
       \/ /\ ConfigValid(c)
          /\ pc' = "templates"
          /\ UNCHANGED <<outcome, err>>
    /\ UNCHANGED <<optimizerVars, input, output, configBlob, c, heap, visited>>

TemplateNeverRejected(templateData, h) == FALSE

\* templateData.Template != nil && *templateData.Template != ""
TemplateHasTemplate(templateData, h) ==
    IF templateData.field["Template"] = NilPtr THEN FALSE
    ELSE h[templateData.field["Template"]] # ""

\* One iteration of the range over c.Templates, in any order of the keys.
CheckTemplate(templateName) ==
    /\ pc = "templates"
    /\ templateName \in DOMAIN c.Templates \ visited
    /\ LET templateData == c.Templates[templateName]
       IN  \/ /\ templateData.null
              /\ Panic(Text(templateName))
              /\ UNCHANGED visited
           \/ /\ ~templateData.null
              /\ TemplateHasTemplate(templateData, heap)
              /\ Fatal("Templates must not have a template field set, but %s does",
                       Text(templateName))
              /\ UNCHANGED visited
           \/ /\ ~templateData.null
              /\ ~TemplateHasTemplate(templateData, heap)
              /\ visited' = visited \cup {templateName}
              /\ UNCHANGED <<pc, outcome, err>>
    /\ UNCHANGED <<optimizerVars, input, output, configBlob, c, heap>>

\* The end of the range over the templates, and the hostname: os.Hostname()
\* is asked when the document names none, and may fail.
SetHostname ==
    /\ pc = "templates"
    /\ visited = DOMAIN c.Templates
    /\ \/ /\ c.Hostname # ""
          /\ pc' = "peers"
          /\ visited' = {}
          /\ UNCHANGED <<c, outcome, err>>
       \/ /\ c.Hostname = ""
          /\ \E hostname \in {"localhost"} :
                c' = [c EXCEPT !.Hostname = hostname]
          /\ pc' = "peers"
          /\ visited' = {}
          /\ UNCHANGED <<outcome, err>>
       \/ /\ c.Hostname = ""
          /\ Fatal("Hostname is not defined and unable to get system hostname: %s", <<>>)
          /\ UNCHANGED <<c, visited>>
    /\ UNCHANGED <<optimizerVars, input, output, configBlob, heap>>

(***************************************************************************)
(* Load, the first range over c.Peers: protocol name, neighbors, template, *)
(* defaults.  The operators take and give back a record [c, heap].          *)
(***************************************************************************)
\* util.Sanitize(peerName): the name made fit for a protocol name.
Sanitize(name) == <<"Sanitize", name>>

PeerPtr(st, peerName, fieldName) == st.c.Peers[peerName].field[fieldName]

\* The peer's field pointed at its own cell, the cell holding value.
SetOwnField(st, peerName, fieldName, value) ==
    [c    |-> [st.c EXCEPT !.Peers[peerName].field[fieldName] =
                              Addr("peer", peerName, fieldName)],
     heap |-> (Addr("peer", peerName, fieldName) :> value) @@ st.heap]

\* peerData.ProtocolName = util.Sanitize(peerName)
SetProtocolName(st, peerName) ==
    SetOwnField(st, peerName, "ProtocolName", Sanitize(peerName))

MarkQueryNVRSOfLastPeer(st, peerName) ==
    [st EXCEPT !.c.QueryNVRS = PeerPtr(st, peerName, "FilterNeverViaRouteServers") # NilPtr]

\* if peerData.FilterNeverViaRouteServers != nil { c.QueryNVRS = true }
MarkQueryNVRS(st, peerName) ==
    IF PeerPtr(st, peerName, "FilterNeverViaRouteServers") # NilPtr
    THEN [st EXCEPT !.c.QueryNVRS = TRUE]
    ELSE st

\* peerData.NeighborIPs == nil || len(*peerData.NeighborIPs) < 1
HasNoNeighbors(st, peerName) ==
    IF PeerPtr(st, peerName, "NeighborIPs") = NilPtr THEN TRUE
    ELSE Len(st.heap[PeerPtr(st, peerName, "NeighborIPs")]) < 1

\* peerData.BooleanOptions = &[]string{}
InitBooleanOptions(st, peerName) ==
    SetOwnField(st, peerName, "BooleanOptions", <<>>)

\* peerData.Template != nil && *peerData.Template != ""
NamesTemplate(st, peerName) ==
    IF PeerPtr(st, peerName, "Template") = NilPtr THEN FALSE
    ELSE st.heap[PeerPtr(st, peerName, "Template")] # ""

TemplateNameOf(st, peerName) == st.heap[PeerPtr(st, peerName, "Template")]

\* template := c.Templates[*peerData.Template]; template == nil
TemplateNotFound(st, templateName) ==
    IF templateName \notin DOMAIN st.c.Templates THEN TRUE
    ELSE st.c.Templates[templateName].null

NotFoundNamesPeer(st, peerName) == Text(peerName)

\* The argument of the "not found" exit: *peerData.Template
NotFoundArgument(st, peerName) == Text(TemplateNameOf(st, peerName))

MergedPointerTemplateWins(fieldName, peerPtr, templatePtr) ==
    IF fieldName # "Template" /\ templatePtr # NilPtr THEN templatePtr ELSE peerPtr

\* One field of the template loop: the peer's pointer afterwards.  The
\* template's pointer itself is assigned, so peer and template share the cell.
MergedPointer(fieldName, peerPtr, templatePtr) ==
    IF fieldName # "Template" /\ templatePtr # NilPtr /\ peerPtr = NilPtr
    THEN templatePtr
    ELSE peerPtr

\* Assign values from template
AssignFromTemplate(st, peerName) ==
    LET template == st.c.Templates[TemplateNameOf(st, peerName)]
    IN  [st EXCEPT !.c.Peers[peerName].field =
            [f \in FieldNames |-> MergedPointer(f, @[f], template.field[f])]]

\* strconv.Atoi and strconv.ParseBool on the default tags of the struct.
AtoiOfTag == ("0" :> 0) @@ ("100" :> 100)

ParseBoolOfTag == ("true" :> TRUE) @@ ("false" :> FALSE)

DefaultValue(fld) ==
    CASE fld.kind = "string" -> fld.default
      [] fld.kind = "int"    -> AtoiOfTag[fld.default]
      [] fld.kind = "bool"   -> ParseBoolOfTag[fld.default]

NeedsDefaultWithoutSentinel(fld, ptr) ==
    ptr = NilPtr /\ fld.kind \in {"string", "int", "bool"}

NeedsDefaultAlways(fld, ptr) ==
    fld.default # "-" /\ fld.kind \in {"string", "int", "bool"}

\* defaultString != "-" && fieldValue.IsNil(), for the kinds that are not
\* ignored
NeedsDefault(fld, ptr) ==
    fld.default # "-" /\ ptr = NilPtr /\ fld.kind \in {"string", "int", "bool"}

\* The yaml keys of the bool fields that hold a value before defaulting, in
\* the order of the struct.
ConfiguredBooleans(st, peerName) ==
    LET isSet(fld) == /\ fld.default # "-"
                      /\ PeerPtr(st, peerName, fld.name) # NilPtr
                      /\ fld.kind = "bool"
        flds == SelectSeq(PeerSchema, isSet)
    IN  [i \in 1..Len(flds) |-> flds[i].yaml]

\* Set default values
SetDefaults(st, peerName) ==
    LET defaulted == {f \in FieldNames : NeedsDefault(FieldOf(f), PeerPtr(st, peerName, f))}
        options   == st.heap[PeerPtr(st, peerName, "BooleanOptions")] \o
                     ConfiguredBooleans(st, peerName)
    IN  [c    |-> [st.c EXCEPT !.Peers[peerName].field =
                      [f \in FieldNames |->
                          IF f \in defaulted THEN Addr("peer", peerName, f) ELSE @[f]]],
         heap |-> [a \in {Addr("peer", peerName, f) : f \in defaulted} |->
                      DefaultValue(FieldOf(a[3]))] @@
                  [st.heap EXCEPT ![PeerPtr(st, peerName, "BooleanOptions")] = options]]

\* The body of the loop down to the neighbor check.
PeerEntered(st, peerName) == MarkQueryNVRS(SetProtocolName(st, peerName), peerName)

\* The whole body of the loop, for a peer that passes its checks.
PeerResolved(st, peerName) ==
    LET entered == InitBooleanOptions(PeerEntered(st, peerName), peerName)
        merged  == IF NamesTemplate(entered, peerName)
                   THEN AssignFromTemplate(entered, peerName)
                   ELSE entered
    IN  SetDefaults(merged, peerName)

\* One iteration of the first range over c.Peers, in any order of the keys.
ResolvePeer(peerName) ==
    /\ pc = "peers"
    /\ peerName \in DOMAIN c.Peers \ visited
    /\ LET st      == [c |-> c, heap |-> heap]
           entered == PeerEntered(st, peerName)
           done    == PeerResolved(st, peerName)
       IN  \/ /\ c.Peers[peerName].null
              /\ Panic(Text(peerName))
              /\ UNCHANGED <<c, heap, visited>>
           \/ /\ ~c.Peers[peerName].null
              /\ HasNoNeighbors(entered, peerName)
              /\ Fatal("[%s] has no neighbors defined", Text(peerName))
              /\ c' = entered.c
              /\ heap' = entered.heap
              /\ UNCHANGED visited
           \/ /\ ~c.Peers[peerName].null
              /\ ~HasNoNeighbors(entered, peerName)
              /\ NamesTemplate(entered, peerName)
              /\ TemplateNotFound(entered, TemplateNameOf(entered, peerName))
              /\ Fatal("Template %s not found", NotFoundArgument(entered, peerName))
              /\ c' = InitBooleanOptions(entered, peerName).c
              /\ heap' = InitBooleanOptions(entered, peerName).heap
              /\ UNCHANGED visited
           \/ /\ ~c.Peers[peerName].null
              /\ ~HasNoNeighbors(entered, peerName)
              /\ IF NamesTemplate(entered, peerName)
                 THEN ~TemplateNotFound(entered, TemplateNameOf(entered, peerName))
                 ELSE TRUE
              /\ c' = done.c
              /\ heap' = done.heap
              /\ visited' = visited \cup {peerName}
              /\ UNCHANGED <<pc, outcome, err>>
    /\ UNCHANGED <<optimizerVars, input, output, configBlob>>

(***************************************************************************)
(* Addresses.  net.ParseCIDR and net.ParseIP on the texts the model uses:  *)
(* a parsed IP is 16 bytes long, with or without the IPv4-in-IPv6 prefix.   *)
(***************************************************************************)
ParsedIP(v4InV6) == [err |-> FALSE, len |-> 16, v4InV6 |-> v4InV6]

ParseFailure == [err |-> TRUE, len |-> 0, v4InV6 |-> FALSE]

\* net.ParseCIDR(prefix): the IP of an address/length text.
ParseCIDR(prefix) ==
    CASE prefix = "192.0.2.0/24"          -> ParsedIP(TRUE)
      [] prefix = "198.51.100.0/24"       -> ParsedIP(TRUE)
      [] prefix = "2001:db8::/32"         -> ParsedIP(FALSE)
      [] prefix = "::ffff:192.0.2.0/120"  -> ParsedIP(TRUE)
      [] prefix = "192.0.2.0"             -> ParseFailure
      [] prefix = "2001:db8::/129"        -> ParseFailure
      [] OTHER                            -> ParseFailure

To4IsNilByLength(ip) == ip.len # 4

\* ip.To4() == nil: the IP has no 4-byte form.
To4IsNil(ip) == ~(ip.len = 4 \/ (ip.len = 16 /\ ip.v4InV6))

WithPrefixCrossed(acc, prefix, pfx) ==
    IF pfx.err THEN [acc EXCEPT !.bad = Text(prefix)]
    ELSE IF To4IsNil(pfx) THEN [acc EXCEPT !.v4 = Append(@, prefix)]
    ELSE [acc EXCEPT !.v6 = Append(@, prefix)]

\* The range over a list of prefixes that sorts them by address family.  acc
\* is [v4, v6, bad]: the two lists so far, and <<the prefix that did not
\* parse>>, at which the range ends.
\* One prefix of the range, parsed as pfx, added to acc.
WithPrefix(acc, prefix, pfx) ==
    IF pfx.err THEN [acc EXCEPT !.bad = Text(prefix)]
    ELSE IF To4IsNil(pfx) THEN [acc EXCEPT !.v6 = Append(@, prefix)]
    ELSE [acc EXCEPT !.v4 = Append(@, prefix)]

RECURSIVE SortByFamily(_, _)
SortByFamily(prefixes, acc) ==
    IF prefixes = <<>> \/ acc.bad # <<>> THEN acc
    ELSE SortByFamily(Tail(prefixes),
                      WithPrefix(acc, Head(prefixes), ParseCIDR(Head(prefixes))))

(***************************************************************************)
(* Load, the global part between the two ranges over the peers             *)
(***************************************************************************)
\* Parse origin routes by assembling OriginIPv{4,6} lists by address family
OriginPrefixesSorted(sorted) ==
    /\ c' = [c EXCEPT !.Prefixes4 = sorted.v4, !.Prefixes6 = sorted.v6]
    /\ \/ /\ sorted.bad # <<>>
          /\ ReturnError("Invalid origin prefix: ", sorted.bad)
       \/ /\ sorted.bad = <<>>
          /\ pc' = "srd"
          /\ UNCHANGED <<outcome, err>>

OriginPrefixes ==
    /\ pc = "peers"
    /\ visited = DOMAIN c.Peers
    /\ OriginPrefixesSorted(SortByFamily(c.Prefixes,
            [v4 |-> c.Prefixes4, v6 |-> c.Prefixes6, bad |-> <<>>]))
    /\ UNCHANGED <<optimizerVars, input, output, configBlob, heap, visited>>

LargeFormVerbatim(community) == community

\* strings.ReplaceAll(community, ":", ",")
LargeForm(community) == ReplaceAll(community, ":", ",")

IsInvalidNever(communityType) == FALSE

\* The final else of the chain on communityType.
IsInvalid(communityType) == communityType # "standard" /\ communityType # "large"

\* The range over a list of communities.  acc is [standard, large, isSet,
\* bad]: the two lists so far, which of them have been created, and <<the
\* community that is neither standard nor large>>, at which the range ends.
\* One community of the range, of type communityType, added to acc.
WithCommunity(acc, community, communityType) ==
    IF communityType = "standard"
    THEN [acc EXCEPT !.standard = Append(@, community),
                     !.isSet = @ \cup {"standard"}]
    ELSE IF communityType = "large"
    THEN [acc EXCEPT !.large = Append(@, LargeForm(community)),
                     !.isSet = @ \cup {"large"}]
    ELSE IF IsInvalid(communityType) THEN [acc EXCEPT !.bad = <<community>>]
    ELSE acc

RECURSIVE CategorizeCommunities(_, _)
CategorizeCommunities(communities, acc) ==
    IF communities = <<>> \/ acc.bad # <<>> THEN acc
    ELSE CategorizeCommunities(Tail(communities),
             WithCommunity(acc, Head(communities), categorizeCommunity(Head(communities))))

NoCommunities == [standard |-> <<>>, large |-> <<>>, isSet |-> {}, bad |-> <<>>]

\* Categorize communities (the SRD communities of the augments)
SRDCommunitiesSorted(sorted) ==
    /\ c' = [c EXCEPT !.SRDStandardCommunities = sorted.standard,
                      !.SRDLargeCommunities = sorted.large]
    /\ \/ /\ sorted.bad # <<>>
          /\ ReturnError("Invalid SRD community: ", sorted.bad[1])
          /\ UNCHANGED visited
       \/ /\ sorted.bad = <<>>
          /\ pc' = "statics"
          /\ visited' = {}
          /\ UNCHANGED <<outcome, err>>

SRDCommunities ==
    /\ pc = "srd"
    /\ SRDCommunitiesSorted(CategorizeCommunities(c.SRDCommunities, NoCommunities))
    /\ UNCHANGED <<optimizerVars, input, output, configBlob, heap>>

ParseIPLenient(str) == ParsedIP(TRUE)

\* net.ParseIP(s): nil for a text that is no IP address.
ParseIP(str) ==
    CASE str = "192.0.2.254"  -> ParsedIP(TRUE)
      [] str = "2001:db8::fe" -> ParsedIP(FALSE)
      [] str = "192.0.2.1"    -> ParsedIP(TRUE)
      [] str = "2001:db8::1"  -> ParsedIP(FALSE)
      [] OTHER                -> ParseFailure

StaticRouteParsed(prefix, nexthop, pfx, hop) ==
    \/ /\ pfx.err
       /\ ReturnError("Invalid static prefix: ", Text(prefix))
       /\ UNCHANGED <<c, visited>>
    \/ /\ ~pfx.err
       /\ hop.err
       /\ ReturnError("Invalid static nexthop: ", Text(nexthop))
       /\ UNCHANGED <<c, visited>>
    \/ /\ ~pfx.err
       /\ ~hop.err
       /\ c' = IF To4IsNil(pfx)
               THEN [c EXCEPT !.Statics6 = (prefix :> nexthop) @@ @]
               ELSE [c EXCEPT !.Statics4 = (prefix :> nexthop) @@ @]
       /\ visited' = visited \cup {prefix}
       /\ UNCHANGED <<pc, outcome, err>>

\* Parse static routes: one iteration of the range over c.Augments.Statics.
StaticRoute(prefix) ==
    /\ pc = "statics"
    /\ prefix \in DOMAIN c.Statics \ visited
    /\ StaticRouteParsed(prefix, c.Statics[prefix], ParseCIDR(prefix),
                         ParseIP(c.Statics[prefix]))
    /\ UNCHANGED <<optimizerVars, input, output, configBlob, heap>>

\* Parse BFD configs: one iteration of the range over c.BFDInstances.
BFDInstance(instanceName) ==
    /\ pc = "bfd"
    /\ instanceName \in DOMAIN c.BFDInstances \ visited
    /\ LET bfdInstance == c.BFDInstances[instanceName]
       IN  \/ /\ bfdInstance.null \/ bfdInstance.Neighbor = NilPtr
              /\ Panic(Text(instanceName))
              /\ UNCHANGED <<c, visited>>
           \/ /\ ~bfdInstance.null
              /\ bfdInstance.Neighbor # NilPtr
              /\ IF bfdInstance.Neighbor = NilPtr THEN FALSE
                 ELSE ParseIP(bfdInstance.Neighbor[1]).err
              /\ ReturnError("invalid BFD neighbor %s", bfdInstance.Neighbor)
              /\ UNCHANGED <<c, visited>>
           \/ /\ ~bfdInstance.null
              /\ bfdInstance.Neighbor # NilPtr
              /\ IF bfdInstance.Neighbor = NilPtr THEN FALSE
                 ELSE ~ParseIP(bfdInstance.Neighbor[1]).err
              /\ c' = [c EXCEPT !.BFDInstances[instanceName].ProtocolName =
                                    <<Sanitize(instanceName)>>]
              /\ visited' = visited \cup {instanceName}
              /\ UNCHANGED <<pc, outcome, err>>
    /\ UNCHANGED <<optimizerVars, input, output, configBlob, heap>>

VRRPInstanceSorted(instanceName, vrrpInstance, sorted) ==
    \/ /\ sorted.bad # <<>>
       /\ ReturnError("Invalid VIP: ", sorted.bad)
       /\ c' = [c EXCEPT !.VRRPInstances[instanceName].VIPs4 = sorted.v4,
                         !.VRRPInstances[instanceName].VIPs6 = sorted.v6]
       /\ UNCHANGED visited
    \/ /\ sorted.bad = <<>>
       /\ vrrpInstance.State \notin {"primary", "backup"}
       /\ ReturnError("VRRP state must be 'primary' or 'backup', unexpected ",
                      Text(vrrpInstance.State))
       /\ c' = [c EXCEPT !.VRRPInstances[instanceName].VIPs4 = sorted.v4,
                         !.VRRPInstances[instanceName].VIPs6 = sorted.v6]
       /\ UNCHANGED visited
    \/ /\ sorted.bad = <<>>
       /\ vrrpInstance.State \in {"primary", "backup"}
       /\ c' = [c EXCEPT !.VRRPInstances[instanceName].VIPs4 = sorted.v4,
                         !.VRRPInstances[instanceName].VIPs6 = sorted.v6,
                         !.VRRPInstances[instanceName].State =
                               IF @ = "primary" THEN "MASTER" ELSE "BACKUP"]
       /\ visited' = visited \cup {instanceName}
       /\ UNCHANGED <<pc, outcome, err>>

\* Parse VRRP configs: one iteration of the range over c.VRRPInstances.
VRRPInstance(instanceName) ==
    /\ pc = "vrrp"
    /\ instanceName \in DOMAIN c.VRRPInstances \ visited
    /\ \/ /\ c.VRRPInstances[instanceName].null
          /\ Panic(Text(instanceName))
          /\ UNCHANGED <<c, visited>>
       \/ /\ ~c.VRRPInstances[instanceName].null
          /\ VRRPInstanceSorted(instanceName, c.VRRPInstances[instanceName],
                 SortByFamily(c.VRRPInstances[instanceName].VIPs,
                              [v4 |-> c.VRRPInstances[instanceName].VIPs4,
                               v6 |-> c.VRRPInstances[instanceName].VIPs6,
                               bad |-> <<>>]))
    /\ UNCHANGED <<optimizerVars, input, output, configBlob, heap>>

\* The map the range at pc goes over.
RangeAt(position) ==
    CASE position = "statics" -> c.Statics
      [] position = "bfd"     -> c.BFDInstances
      [] position = "vrrp"    -> c.VRRPInstances

AfterRange(position) ==
    CASE position = "statics" -> "bfd"
      [] position = "bfd"     -> "vrrp"
      [] position = "vrrp"    -> "rtr"

\* The end of the range over the static routes, the BFD instances or the
\* VRRP instances: every key has been visited.
EndOfRange ==
    /\ pc \in {"statics", "bfd", "vrrp"}
    /\ visited = DOMAIN RangeAt(pc)
    /\ pc' = AfterRange(pc)
    /\ visited' = {}
    /\ UNCHANGED <<optimizerVars, input, output, configBlob, c, heap, outcome, err>>

RTRServerSplit(rtrServerParts, rtrServerPort) ==
    \/ /\ Len(rtrServerParts) # 2
       /\ Fatal("Invalid rtr-server '%s' format should be host:port", rtrServerParts)
       /\ UNCHANGED c
    \/ /\ Len(rtrServerParts) = 2
       /\ rtrServerPort.err
       /\ Fatal("Invalid RTR server port %s", rtrServerParts[2])
       /\ c' = [c EXCEPT !.RTRServerHost = rtrServerParts[1]]
    \/ /\ Len(rtrServerParts) = 2
       /\ ~rtrServerPort.err
       /\ c' = [c EXCEPT !.RTRServerHost = rtrServerParts[1],
                         !.RTRServerPort = rtrServerPort]
       /\ pc' = "finish"
       /\ UNCHANGED <<outcome, err>>

\* Parse RTR server
ParseRTRServer ==
    /\ pc = "rtr"
    /\ \/ /\ c.RTRServer = <<>>
          /\ pc' = "finish"
          /\ UNCHANGED <<c, outcome, err>>
       \/ /\ c.RTRServer # <<>>
          /\ RTRServerSplit(Split(c.RTRServer, ":"),
                            IF Len(Split(c.RTRServer, ":")) = 2
                            THEN Atoi(Split(c.RTRServer, ":")[2])
                            ELSE AtoiError)
    /\ UNCHANGED <<optimizerVars, input, output, configBlob, heap, visited>>

(***************************************************************************)
(* Load, the second range over c.Peers: prefix filters, communities,       *)
(* announce-originated.  The operators take and give back a record          *)
(* [c, heap, fail], fail the error a step returned, and do nothing once a   *)
(* step has failed.                                                         *)
(***************************************************************************)
\* The two prefix sets a range has built, stored in the peer.
StorePrefixSets(st, peerName, sorted) ==
    [c    |-> [st.c EXCEPT !.Peers[peerName].field =
                  [f \in FieldNames |->
                      IF \/ f = "PrefixSet4" /\ sorted.v4 # <<>>
                         \/ f = "PrefixSet6" /\ sorted.v6 # <<>>
                      THEN Addr("peer", peerName, f)
                      ELSE @[f]]],
     heap |-> [a \in {Addr("peer", peerName, "PrefixSet4") : x \in {sorted.v4} \ {<<>>}}
                     \cup {Addr("peer", peerName, "PrefixSet6") : x \in {sorted.v6} \ {<<>>}} |->
                  IF a[3] = "PrefixSet4" THEN sorted.v4 ELSE sorted.v6] @@ st.heap,
     fail |-> IF sorted.bad = <<>> THEN NoError
              ELSE [msg |-> "Invalid prefix: ", arg |-> sorted.bad]]

\* Build static prefix filters
BuildPrefixFilters(st, peerName) ==
    IF PeerPtr(st, peerName, "Prefixes") = NilPtr THEN st
    ELSE StorePrefixSets(st, peerName,
             SortByFamily(st.heap[PeerPtr(st, peerName, "Prefixes")],
                          [v4 |-> <<>>, v6 |-> <<>>, bad |-> <<>>]))

\* The four community lists of a peer, in the order Load goes through them.
CommunityLists == <<
    [source |-> "ImportCommunities",   standard |-> "ImportStandardCommunities",
     large  |-> "ImportLargeCommunities",   msg |-> "Invalid import community: "],
    [source |-> "ExportCommunities",   standard |-> "ExportStandardCommunities",
     large  |-> "ExportLargeCommunities",   msg |-> "Invalid export community: "],
    [source |-> "AnnounceCommunities", standard |-> "AnnounceStandardCommunities",
     large  |-> "AnnounceLargeCommunities", msg |-> "Invalid announce community: "],
    [source |-> "RemoveCommunities",   standard |-> "RemoveStandardCommunities",
     large  |-> "RemoveLargeCommunities",   msg |-> "Invalid remove community: "] >>

\* The two lists a range has built, stored in the peer.
StoreCommunities(st, peerName, list, sorted) ==
    [c    |-> [st.c EXCEPT !.Peers[peerName].field =
                  [f \in FieldNames |->
                      IF \/ f = list.standard /\ "standard" \in sorted.isSet
                         \/ f = list.large /\ "large" \in sorted.isSet
                      THEN Addr("peer", peerName, f)
                      ELSE @[f]]],
     heap |-> [a \in {Addr("peer", peerName, list.standard) : x \in sorted.isSet \cap {"standard"}}
                     \cup {Addr("peer", peerName, list.large) : x \in sorted.isSet \cap {"large"}} |->
                  IF a[3] = list.standard THEN sorted.standard ELSE sorted.large] @@ st.heap,
     fail |-> IF sorted.bad = <<>> THEN NoError
              ELSE [msg |-> list.msg, arg |-> sorted.bad[1]]]

\* Categorize communities (one of the four lists of a peer)
CategorizePeerCommunities(st, peerName, list) ==
    IF st.fail # NoError THEN st
    ELSE IF PeerPtr(st, peerName, list.source) = NilPtr THEN st
    ELSE StoreCommunities(st, peerName, list,
             CategorizeCommunities(st.heap[PeerPtr(st, peerName, list.source)],
                                   NoCommunities))

NothingToOriginateNever(st, peerName) == FALSE

NothingToOriginateAlways(st, peerName) ==
    st.heap[PeerPtr(st, peerName, "AnnounceOriginated")]

\* len(c.Prefixes) < 1 && *peerData.AnnounceOriginated
NothingToOriginate(st, peerName) ==
    IF Len(st.c.Prefixes) < 1
    THEN st.heap[PeerPtr(st, peerName, "AnnounceOriginated")]
    ELSE FALSE

\* Check for no originated prefixes but announce-originated enabled: false is
\* written through the pointer, into the cell it points at.
CheckAnnounceOriginated(st, peerName) ==
    IF st.fail # NoError THEN st
    ELSE IF NothingToOriginate(st, peerName)
    THEN [st EXCEPT !.heap[PeerPtr(st, peerName, "AnnounceOriginated")] = FALSE]
    ELSE st

\* The four community lists, one after the other.
RECURSIVE CategorizeAll(_, _, _)
CategorizeAll(st, peerName, lists) ==
    IF lists = <<>> THEN st
    ELSE CategorizeAll(CategorizePeerCommunities(st, peerName, Head(lists)),
                       peerName, Tail(lists))

PeerFinishedUnfiltered(st, peerName) ==
    CheckAnnounceOriginated(
        CategorizeAll([c |-> st.c, heap |-> st.heap, fail |-> NoError], peerName,
                      CommunityLists),
        peerName)

\* The whole body of the second loop.
PeerFinished(st, peerName) ==
    LET filtered    == BuildPrefixFilters([c |-> st.c, heap |-> st.heap, fail |-> NoError],
                                          peerName)
        categorized == CategorizeAll(filtered, peerName, CommunityLists)
    IN  CheckAnnounceOriginated(categorized, peerName)

FinishPeerWith(peerName, done) ==
    /\ c' = done.c
    /\ heap' = done.heap
    /\ \/ /\ done.fail # NoError
          /\ ReturnError(done.fail.msg, done.fail.arg)
          /\ UNCHANGED visited
       \/ /\ done.fail = NoError
          /\ visited' = visited \cup {peerName}
          /\ UNCHANGED <<pc, outcome, err>>

\* One iteration of the second range over c.Peers, in any order of the keys.
FinishPeer(peerName) ==
    /\ pc = "finish"
    /\ peerName \in DOMAIN c.Peers \ visited
    /\ FinishPeerWith(peerName, PeerFinished([c |-> c, heap |-> heap], peerName))
    /\ UNCHANGED <<optimizerVars, input, output, configBlob>>

\* return &c, nil
ReturnConfig ==
    /\ pc = "finish"
    /\ visited = DOMAIN c.Peers
    /\ outcome' = "config"
    /\ pc' = "done"
    /\ UNCHANGED <<optimizerVars, input, output, configBlob, c, heap, visited, err>>

(***************************************************************************)
(* The documents Load is run on.  An option is <<>> (the key is absent) or *)
(* <<v>> (the key is given v).                                              *)
(***************************************************************************)
MaxCommunities == 2

MaxPrefixes == 2

KeysOf(options) ==
    [f \in {k \in DOMAIN options : options[k] # <<>>} |-> options[f][1]]

Body(options) == [null |-> FALSE, keys |-> KeysOf(options)]

NullBody == [null |-> TRUE, keys |-> <<>>]

\* The sequences over S of length at most n.
SeqsUpTo(S, n) == UNION { [1..k -> S] : k \in 0..n }

Optional(S) == {<<>>} \cup {<<v>> : v \in S}

Standard100 == <<"1","0","0",",","2","0","0">>

Large100 == <<"1","0","0",":","2","0","0",":","3","0","0">>

OutOfRange == <<"6","5","5","3","6",",","1">>

TwoColonParts == <<"1","0","0",":","2","0","0">>

StandardTop == <<"0",",","6","5","5","3","5">>

CommunitySamples == {Standard100, StandardTop, Large100, OutOfRange, TwoColonParts}

PrefixSamples ==
    {"192.0.2.0/24", "198.51.100.0/24", "2001:db8::/32", "::ffff:192.0.2.0/120", "192.0.2.0"}

Neighbors == <<"192.0.2.1">>

BaseBlob ==
    [wellFormed     |-> TRUE,
     ASN            |-> 65000,
     RouterID       |-> "192.0.2.1",
     Hostname       |-> "router",
     Prefixes       |-> <<"192.0.2.0/24">>,
     SRDCommunities |-> <<>>,
     Statics        |-> <<>>,
     BFDInstances   |-> <<>>,
     VRRPInstances  |-> <<>>,
     RTRServer      |-> DefaultRTRServer,
     Templates      |-> <<>>,
     Peers          |-> <<>>]

\* A second peer: none, or one that takes everything but its neighbors from
\* template t1.
SecondPeers ==
    { <<>>,
      "p2" :> Body([NeighborIPs |-> <<Neighbors>>, Template |-> <<"t1">>]) }

\* Template and peer both choose among the scalar fields.
ScalarBlobs ==
    { [BaseBlob EXCEPT
         !.Prefixes  = origin,
         !.Templates = "t1" :> Body([LocalPref |-> tl, AnnounceOriginated |-> ta,
                                     Description |-> td]),
         !.Peers     = ("p1" :> Body([NeighborIPs |-> <<Neighbors>>, Template |-> pt,
                                      LocalPref |-> pl, AnnounceOriginated |-> pa,
                                      Description |-> pd])) @@ second] :
        origin \in {<<>>, <<"192.0.2.0/24">>},
        tl \in Optional({200}), ta \in Optional(BOOLEAN),
        td \in Optional({"from template"}),
        pt \in Optional({"t1"}),
        pl \in Optional({50}), pa \in Optional(BOOLEAN),
        pd \in Optional({"from peer"}),
        second \in SecondPeers }

\* Template and peer both choose the never-via-route-servers filter.
FilterBlobs ==
    { [BaseBlob EXCEPT
         !.Templates = "t1" :> Body([FilterNeverViaRouteServers |-> tf]),
         !.Peers     = ("p1" :> Body([NeighborIPs |-> <<Neighbors>>, Template |-> pt,
                                      FilterNeverViaRouteServers |-> pf])) @@ second] :
        tf \in Optional(BOOLEAN), pf \in Optional(BOOLEAN),
        pt \in Optional({"t1"}),
        second \in SecondPeers }

\* Template and peer both choose among the ASN, the max-prefix action and the
\* neighbors.
AttributeBlobs ==
    { [BaseBlob EXCEPT
         !.Templates = "t1" :> Body([ASN |-> tasn, MaxPrefixTripAction |-> tm,
                                     NeighborIPs |-> tn]),
         !.Peers     = "p1" :> Body([Template |-> pt,
                                     ASN |-> pasn, MaxPrefixTripAction |-> pm,
                                     NeighborIPs |-> pn])] :
        tasn \in Optional({65010}), tm \in Optional({"restart"}),
        tn \in Optional({<<"2001:db8::1">>}),
        pt \in Optional({"t1"}),
        pasn \in Optional({65001}), pm \in Optional({"warn"}),
        pn \in Optional({Neighbors}) }

\* Template and peer both choose among the list-valued fields.
ListBlobs ==
    { [BaseBlob EXCEPT
         !.Templates = "t1" :> Body([NeighborIPs |-> tn, ImportCommunities |-> ti,
                                     Prefixes |-> tp]),
         !.Peers     = "p1" :> Body([Template |-> pt,
                                     NeighborIPs |-> <<Neighbors>>,
                                     ImportCommunities |-> pi,
                                     Prefixes |-> pp])] :
        tn \in Optional({<<"2001:db8::1">>}), ti \in Optional({<<Standard100>>}),
        tp \in Optional({<<"2001:db8::/32">>}),
        pt \in Optional({"t1"}),
        pi \in Optional({<<Large100, Standard100>>}),
        pp \in Optional({<<"192.0.2.0/24", "2001:db8::/32">>}) }

\* One community list of p1 takes every value.
OneListBlobs ==
    { [BaseBlob EXCEPT
         !.Peers = "p1" :> Body([NeighborIPs |-> <<Neighbors>>,
                                 ImportCommunities   |-> IF k = 1 THEN <<list>> ELSE <<>>,
                                 ExportCommunities   |-> IF k = 2 THEN <<list>> ELSE <<>>,
                                 AnnounceCommunities |-> IF k = 3 THEN <<list>> ELSE <<>>,
                                 RemoveCommunities   |-> IF k = 4 THEN <<list>> ELSE <<>>])] :
        k \in 1..4, list \in SeqsUpTo(CommunitySamples, MaxCommunities) }

\* The four community lists of p1 each take one of a few values, with or
\* without a second peer that has a list of its own.
FourListBlobs ==
    { [BaseBlob EXCEPT
         !.Peers = ("p1" :> Body([NeighborIPs |-> <<Neighbors>>,
                                  ImportCommunities |-> lists[1],
                                  ExportCommunities |-> lists[2],
                                  AnnounceCommunities |-> lists[3],
                                  RemoveCommunities |-> lists[4]])) @@ second] :
        lists \in [1..4 -> {<<>>, << <<Large100>> >>, << <<OutOfRange>> >>,
                            << <<StandardTop, Standard100>> >>}],
        second \in { <<>>,
                     "p2" :> Body([NeighborIPs |-> <<Neighbors>>,
                                   RemoveCommunities |-> << <<Large100, TwoColonParts>> >>]) } }

CommunityBlobs == OneListBlobs \cup FourListBlobs

SRDBlobs ==
    { [BaseBlob EXCEPT
         !.SRDCommunities = srd,
         !.Peers = "p1" :> Body([NeighborIPs |-> <<Neighbors>>])] :
        srd \in SeqsUpTo(CommunitySamples, MaxCommunities) }

\* The origin prefixes, or the prefixes of p1, take every value.
PrefixBlobs ==
    { [BaseBlob EXCEPT
         !.Prefixes = origin,
         !.Peers = ("p1" :> Body([NeighborIPs |-> <<Neighbors>>, Prefixes |-> mine])) @@
                   ("p2" :> Body([NeighborIPs |-> <<Neighbors>>]))] :
        origin \in SeqsUpTo(PrefixSamples, MaxPrefixes),
        mine \in {<<>>, << <<"2001:db8::/32", "192.0.2.0/24">> >>} }
    \cup
    { [BaseBlob EXCEPT
         !.Prefixes = origin,
         !.Templates = "t1" :> Body([Prefixes |-> << <<"198.51.100.0/24">> >>]),
         !.Peers = ("p1" :> Body([NeighborIPs |-> <<Neighbors>>, Prefixes |-> mine])) @@
                   ("p2" :> Body([NeighborIPs |-> <<Neighbors>>, Template |-> <<"t1">>]))] :
        origin \in {<<>>, <<"2001:db8::/32">>},
        mine \in Optional(SeqsUpTo(PrefixSamples, MaxPrefixes)) }

\* Documents with something wrong: each part is right or wrong in one way.
FaultyTemplates ==
    { <<>>,
      "t1" :> Body([LocalPref |-> <<200>>]),
      "t1" :> NullBody,
      "t1" :> Body([Template |-> <<"">>, LocalPref |-> <<200>>]),
      "t1" :> Body([Template |-> <<"t2">>]),
      ("t1" :> Body([LocalPref |-> <<200>>])) @@ ("t2" :> Body([Template |-> <<"t1">>])),
      ("t1" :> NullBody) @@ ("t2" :> Body([Template |-> <<"t1">>])) }

FaultyPeerBodies ==
    { Body([NeighborIPs |-> <<Neighbors>>]),
      Body([NeighborIPs |-> <<Neighbors>>, Template |-> <<"t1">>]),
      Body([NeighborIPs |-> <<Neighbors>>, Template |-> <<"">>]),
      Body([NeighborIPs |-> <<Neighbors>>, Template |-> <<"t3">>]),
      Body([Template |-> <<"t3">>]),
      Body([Template |-> <<"t1">>]),
      Body([NeighborIPs |-> << <<>> >>]),
      Body([NeighborIPs |-> <<Neighbors>>, ImportCommunities |-> << <<OutOfRange>> >>]),
      Body([NeighborIPs |-> <<Neighbors>>, Prefixes |-> << <<"192.0.2.0">> >>]),
      NullBody }

FaultBlobs ==
    { [BaseBlob EXCEPT !.wellFormed = FALSE],
      [BaseBlob EXCEPT !.ASN = 0],
      [BaseBlob EXCEPT !.RouterID = ""] }
    \cup
    { [BaseBlob EXCEPT
         !.Hostname = "",
         !.Peers    = peers] :
        peers \in { <<>>, "p1" :> Body([NeighborIPs |-> <<Neighbors>>]) } }
    \cup
    { [BaseBlob EXCEPT
         !.Templates = templates,
         !.Peers     = peers] :
        templates \in FaultyTemplates,
        peers \in { <<>> } \cup { "p1" :> b : b \in FaultyPeerBodies }
                  \cup { ("p1" :> b1) @@ ("p2" :> b2) :
                            b1 \in FaultyPeerBodies, b2 \in FaultyPeerBodies } }

\* The augments: static routes, BFD and VRRP instances, the RTR server.
StaticsSamples ==
    { "192.0.2.0/24" :> "192.0.2.254",
      "2001:db8::/32" :> "2001:db8::fe",
      ("192.0.2.0/24" :> "2001:db8::fe") @@ ("2001:db8::/32" :> "192.0.2.254"),
      ("192.0.2.0/24" :> "192.0.2.254") @@ ("::ffff:192.0.2.0/120" :> "192.0.2.254"),
      ("192.0.2.0/24" :> "gateway") @@ ("192.0.2.0" :> "192.0.2.254"),
      "2001:db8::/32" :> "gateway" }

BFDSamples ==
    { "upstream" :> [null |-> FALSE, Neighbor |-> <<"192.0.2.1">>],
      "upstream" :> [null |-> FALSE, Neighbor |-> <<"neighbor">>],
      "upstream" :> [null |-> FALSE, Neighbor |-> <<>>],
      "upstream" :> [null |-> TRUE, Neighbor |-> <<>>],
      ("upstream" :> [null |-> FALSE, Neighbor |-> <<"2001:db8::1">>]) @@
          ("backup" :> [null |-> FALSE, Neighbor |-> <<>>]) }

VRRPSamples ==
    { "vip" :> [null |-> FALSE, State |-> state, VIPs |-> vips] :
        state \in {"primary", "backup", "MASTER"},
        vips \in SeqsUpTo({"192.0.2.0/24", "2001:db8::/32", "192.0.2.0"}, MaxPrefixes) }
    \cup
    { ("vip" :> [null |-> FALSE, State |-> "primary", VIPs |-> <<"2001:db8::/32">>]) @@
          ("vip2" :> [null |-> FALSE, State |-> state, VIPs |-> <<vip, "2001:db8::/32">>]) :
        state \in {"backup", "standby"}, vip \in {"192.0.2.0/24", "192.0.2.0/33"} }
    \cup
    { "vip" :> [null |-> TRUE, State |-> "", VIPs |-> <<>>] }

RTRServerSamples ==
    { <<>>,
      <<"h",":","8","2">>,
      <<"h">>,
      <<"h",":","x">>,
      <<"h",":">>,
      <<"h",":","-","1">>,
      <<":","0","8","2">>,
      <<":",":","1",":","8","2">> }

AugmentBlobs ==
    { [BaseBlob EXCEPT
         !.Peers         = "p1" :> Body([NeighborIPs |-> <<Neighbors>>]),
         !.Statics       = statics,
         !.BFDInstances  = bfd,
         !.VRRPInstances = vrrp,
         !.RTRServer     = rtr] :
        statics \in {<<>>} \cup StaticsSamples,
        bfd \in {<<>>} \cup BFDSamples,
        vrrp \in {<<>>, "vip" :> [null |-> FALSE, State |-> "primary",
                                  VIPs |-> <<"192.0.2.0/24", "2001:db8::/32">>]},
        rtr \in RTRServerSamples }
    \cup
    { [BaseBlob EXCEPT
         !.Peers         = "p1" :> Body([NeighborIPs |-> <<Neighbors>>]),
         !.VRRPInstances = vrrp] :
        vrrp \in VRRPSamples }

Blobs == ScalarBlobs \cup FilterBlobs \cup AttributeBlobs \cup ListBlobs \cup CommunityBlobs \cup SRDBlobs \cup PrefixBlobs
         \cup FaultBlobs \cup AugmentBlobs

Init ==
    /\ pc = "unmarshal"
    /\ configBlob \in Blobs
    /\ c = ZeroConfig
    /\ heap = <<>>
    /\ visited = {}
    /\ outcome = "running"
    /\ err = NoError
    /\ input = <<>>
    /\ output = ""
    /\ OptimizerOff

Next ==
    \/ Unmarshal
    \/ Validate
    \/ \E templateName \in DOMAIN c.Templates : CheckTemplate(templateName)
    \/ SetHostname
    \/ \E peerName \in DOMAIN c.Peers : ResolvePeer(peerName)
    \/ OriginPrefixes
    \/ SRDCommunities
    \/ \E prefix \in DOMAIN c.Statics : StaticRoute(prefix)
    \/ \E instanceName \in DOMAIN c.BFDInstances : BFDInstance(instanceName)
    \/ \E instanceName \in DOMAIN c.VRRPInstances : VRRPInstance(instanceName)
    \/ EndOfRange
    \/ ParseRTRServer
    \/ \E peerName \in DOMAIN c.Peers : FinishPeer(peerName)
    \/ ReturnConfig

Spec == Init /\ [][Next]_vars

(***************************************************************************)
(* The route optimizer.  The Optimizer struct declares its configuration   *)
(* and its cache, Db; the control loop that fills the cache and decides     *)
(* the preference of each peer is modelled from the specification: a cycle  *)
(* goes Idle, Probing, Deciding, Idle.  In Probing one probe per target is  *)
(* in flight and the probes return in any order, each result going into     *)
(* the cache of its target; in Deciding the peers are decided one by one.   *)
(***************************************************************************)
MaxCacheSize == 2

MaxCycles == 3

\* The probe targets, and the targets each optimizer-enabled peer refers to:
\* a target may serve several peers and a peer may have several targets.
TargetsOf == ("peer1" :> {"target1"}) @@ ("peer2" :> {"target1", "target2"})

OptimizerPeers == DOMAIN TargetsOf

ProbeTargets == UNION {TargetsOf[peer] : peer \in OptimizerPeers}

\* The configurations of the Optimizer struct the model runs under: the loss
\* threshold in percent, the latency threshold in milliseconds.
OptimizerConfigs ==
    [CacheSize           : 1..MaxCacheSize,
     ExitOnCacheFull     : BOOLEAN,
     PacketLossThreshold : {50},
     LatencyThreshold    : {100},
     LocalPrefModifier   : {20}]

\* What a probe can measure: the loss in percent and, if an attempt was
\* answered, <<the average round-trip time in milliseconds>>.  A target that
\* cannot be reached is measured as 100% loss.
ProbeOutcomes ==
    { [PacketLoss |-> 0,   AvgRtt |-> <<20>>],
      [PacketLoss |-> 0,   AvgRtt |-> <<180>>],
      [PacketLoss |-> 100, AvgRtt |-> <<>>] }

\* A ProbeResult: the time of the probe, here the number of its cycle, and
\* what it measured.
ProbeResult(time, measured) ==
    [Time |-> time, PacketLoss |-> measured.PacketLoss, AvgRtt |-> measured.AvgRtt]

NormalState == [state |-> "normal", modifier |-> 0]

InitOptimizer ==
    /\ optimizer \in OptimizerConfigs
    /\ Db = [target \in ProbeTargets |-> <<>>]
    /\ loop = "Idle"
    /\ cycle = 0
    /\ inFlight = {}
    /\ decided = {}
    /\ PreferenceState = [peer \in OptimizerPeers |-> NormalState]
    /\ alerts = <<>>
    /\ stopSignal = FALSE
    /\ observed = FALSE
    /\ pc = "optimizer"
    /\ input = <<>>
    /\ output = ""
    /\ configBlob = <<>>
    /\ c = <<>>
    /\ heap = <<>>
    /\ visited = {}
    /\ outcome = "running"
    /\ err = NoError

DispatchOverlapping ==
    /\ loop \in {"Idle", "Deciding"}
    /\ ~stopSignal
    /\ cycle < MaxCycles
    /\ loop' = "Probing"
    /\ cycle' = cycle + 1
    /\ inFlight' = ProbeTargets
    /\ decided' = {}
    /\ UNCHANGED <<optimizer, Db, PreferenceState, alerts, stopSignal, observed>>
    /\ UNCHANGED <<pc, input, output, loadVars>>

\* The interval timer fires: a probe is dispatched to every target of an
\* optimizer-enabled peer.  No cycle begins once the stop signal is up.
Dispatch ==
    /\ loop = "Idle"
    /\ ~stopSignal
    /\ cycle < MaxCycles
    /\ loop' = "Probing"
    /\ cycle' = cycle + 1
    /\ inFlight' = ProbeTargets
    /\ decided' = {}
    /\ UNCHANGED <<optimizer, Db, PreferenceState, alerts, stopSignal, observed>>
    /\ UNCHANGED <<pc, input, output, loadVars>>

InsertedOverNewest(cache, result, size) ==
    IF Len(cache) < size THEN Append(cache, result)
    ELSE Append(SubSeq(cache, 1, Len(cache) - 1), result)

\* A result appended to a cache of capacity size: at capacity the oldest
\* entry, the first, is evicted.
Inserted(cache, result, size) ==
    IF Len(cache) < size THEN Append(cache, result)
    ELSE Append(Tail(cache), result)

ProbeEvicting(target) ==
    /\ loop = "Probing"
    /\ target \in inFlight
    /\ \E measured \in ProbeOutcomes :
          /\ Db' = [Db EXCEPT ![target] =
                       Inserted(@, ProbeResult(cycle, measured), optimizer.CacheSize)]
          /\ inFlight' = inFlight \ {target}
          /\ UNCHANGED loop
    /\ UNCHANGED <<optimizer, cycle, decided, PreferenceState, alerts, stopSignal,
                   observed>>
    /\ UNCHANGED <<pc, input, output, loadVars>>

\* The probe of a target returns, with an answer or after its timeout, and
\* its result goes into the cache of the target.  If the cache is full and
\* the optimizer is to exit on a full cache, the loop ends instead.
Probe(target) ==
    /\ loop = "Probing"
    /\ target \in inFlight
    /\ \E measured \in ProbeOutcomes :
          \/ /\ Len(Db[target]) >= optimizer.CacheSize
             /\ optimizer.ExitOnCacheFull
             /\ loop' = "Exited"
             /\ UNCHANGED <<Db, inFlight>>
          \/ /\ ~(Len(Db[target]) >= optimizer.CacheSize /\ optimizer.ExitOnCacheFull)
             /\ Db' = [Db EXCEPT ![target] =
                          Inserted(@, ProbeResult(cycle, measured), optimizer.CacheSize)]
             /\ inFlight' = inFlight \ {target}
             /\ UNCHANGED loop
    /\ UNCHANGED <<optimizer, cycle, decided, PreferenceState, alerts, stopSignal,
                   observed>>
    /\ UNCHANGED <<pc, input, output, loadVars>>

FanInEarly ==
    /\ loop = "Probing"
    /\ loop' = IF observed THEN "Stopped" ELSE "Deciding"
    /\ UNCHANGED <<optimizer, Db, cycle, inFlight, decided, PreferenceState, alerts,
                   stopSignal, observed>>
    /\ UNCHANGED <<pc, input, output, loadVars>>

\* The fan-in barrier: every probe of the cycle has returned.  The decision
\* step follows, unless the loop has observed the stop signal while it was
\* waiting here: then it ends.
FanIn ==
    /\ loop = "Probing"
    /\ inFlight = {}
    /\ loop' = IF observed THEN "Stopped" ELSE "Deciding"
    /\ UNCHANGED <<optimizer, Db, cycle, inFlight, decided, PreferenceState, alerts,
                   stopSignal, observed>>
    /\ UNCHANGED <<pc, input, output, loadVars>>

\* The sum of the values of a function with a finite domain.
RECURSIVE Total(_)
Total(fn) ==
    IF DOMAIN fn = {} THEN 0
    ELSE LET x == CHOOSE y \in DOMAIN fn : TRUE
         IN  fn[x] + Total([y \in DOMAIN fn \ {x} |-> fn[y]])

\* The cache window of a peer: the places <<target, index>> of the results
\* cached for its targets.
Window(caches, peer) ==
    {place \in TargetsOf[peer] \X (1..MaxCacheSize) : place[2] \in DOMAIN caches[place[1]]}

\* The aggregate loss over the window exceeds the loss threshold.
LossExceeded(caches, conf, peer) ==
    Total([place \in Window(caches, peer) |-> caches[place[1]][place[2]].PacketLoss])
        > conf.PacketLossThreshold * Cardinality(Window(caches, peer))

\* The aggregate latency, the mean over the answered probes of the window,
\* exceeds the latency threshold.
LatencyExceeded(caches, conf, peer) ==
    LET answered == {place \in Window(caches, peer) :
                        caches[place[1]][place[2]].AvgRtt # <<>>}
    IN  Total([place \in answered |-> caches[place[1]][place[2]].AvgRtt[1]])
            > conf.LatencyThreshold * Cardinality(answered)

UnhealthyByLossOnly(caches, conf, peer) == LossExceeded(caches, conf, peer)

Unhealthy(caches, conf, peer) ==
    LossExceeded(caches, conf, peer) \/ LatencyExceeded(caches, conf, peer)

\* The PreferenceState the decision step gives a peer.
Decision(caches, conf, peer) ==
    IF Unhealthy(caches, conf, peer)
    THEN [state |-> "depreferred", modifier |-> conf.LocalPrefModifier]
    ELSE NormalState

AlertedAlways(log, peer, previous, new, time) ==
    Append(log, [peer |-> peer, previous |-> previous.state, new |-> new.state,
                 time |-> time])

\* The alert invocations after a decision: one more, with the peer and its
\* previous and new state, if the state of the peer changes.
Alerted(log, peer, previous, new, time) ==
    IF previous.state # new.state
    THEN Append(log, [peer |-> peer, previous |-> previous.state, new |-> new.state,
                      time |-> time])
    ELSE log

\* The decision step for one peer.
Decide(peer) ==
    /\ loop = "Deciding"
    /\ peer \in OptimizerPeers \ decided
    /\ PreferenceState' =
          [PreferenceState EXCEPT ![peer] = Decision(Db, optimizer, peer)]
    /\ alerts' = Alerted(alerts, peer, PreferenceState[peer],
                         Decision(Db, optimizer, peer), cycle)
    /\ decided' = decided \cup {peer}
    /\ UNCHANGED <<optimizer, Db, loop, cycle, inFlight, stopSignal, observed>>
    /\ UNCHANGED <<pc, input, output, loadVars>>

\* Every peer is decided: the loop waits for its timer again.
EndCycle ==
    /\ loop = "Deciding"
    /\ decided = OptimizerPeers
    /\ loop' = "Idle"
    /\ UNCHANGED <<optimizer, Db, cycle, inFlight, decided, PreferenceState, alerts,
                   stopSignal, observed>>
    /\ UNCHANGED <<pc, input, output, loadVars>>

\* The external stop signal is raised, at any moment of a running loop.
Cancel ==
    /\ loop \in {"Idle", "Probing", "Deciding"}
    /\ ~stopSignal
    /\ stopSignal' = TRUE
    /\ UNCHANGED <<optimizer, Db, loop, cycle, inFlight, decided, PreferenceState, alerts,
                   observed>>
    /\ UNCHANGED <<pc, input, output, loadVars>>

\* The loop, waiting for its timer, observes the stop signal and ends.
ObserveStop ==
    /\ loop = "Idle"
    /\ stopSignal
    /\ loop' = "Stopped"
    /\ observed' = TRUE
    /\ UNCHANGED <<optimizer, Db, cycle, inFlight, decided, PreferenceState, alerts,
                   stopSignal>>
    /\ UNCHANGED <<pc, input, output, loadVars>>

ObserveAtBarrierAborting ==
    /\ loop = "Probing"
    /\ stopSignal
    /\ ~observed
    /\ observed' = TRUE
    /\ inFlight' = {}
    /\ loop' = "Stopped"
    /\ UNCHANGED <<optimizer, Db, cycle, decided, PreferenceState, alerts, stopSignal>>
    /\ UNCHANGED <<pc, input, output, loadVars>>

\* The loop, waiting at the fan-in barrier, observes the stop signal.  The
\* probes in flight go on and return as they would.
ObserveAtBarrier ==
    /\ loop = "Probing"
    /\ stopSignal
    /\ ~observed
    /\ observed' = TRUE
    /\ UNCHANGED <<optimizer, Db, loop, cycle, inFlight, decided, PreferenceState, alerts,
                   stopSignal>>
    /\ UNCHANGED <<pc, input, output, loadVars>>

NextOptimizer ==
    \/ Dispatch
    \/ \E target \in ProbeTargets : Probe(target)
    \/ FanIn
    \/ \E peer \in OptimizerPeers : Decide(peer)
    \/ EndCycle
    \/ Cancel
    \/ ObserveStop
    \/ ObserveAtBarrier

SpecOptimizer == InitOptimizer /\ [][NextOptimizer]_vars

(***************************************************************************)
(* The Load of internal/embed/templates/peer.tmpl.  The file carries,      *)
(* behind the BIRD template, a second package config with a Load of its    *)
(* own.  It is modelled for the fields of a peer that decide its prefix    *)
(* filters; a pointer field is NilPtr or <<the value it points to>>.       *)
(***************************************************************************)
TmplPrefixes == {"192.0.2.0/24", "2001:db8::/32", "192.0.2.0"}

\* The documents: template t1 and peers p1 and p2, with and without
\* neighbors, template and prefixes.  PrefixSet4 and PrefixSet6 have the tag
\* yaml:"-": no document sets them.
TmplBlobs ==
    { [Templates |-> "t1" :> [Template |-> NilPtr, NeighborIPs |-> NilPtr,
                              Prefixes |-> tp, PrefixSet4 |-> NilPtr, PrefixSet6 |-> NilPtr],
       Peers     |-> ("p1" :> [Template |-> pt, NeighborIPs |-> pn,
                               Prefixes |-> pp, PrefixSet4 |-> NilPtr, PrefixSet6 |-> NilPtr])
                  @@ ("p2" :> [Template |-> NilPtr, NeighborIPs |-> <<Neighbors>>,
                               Prefixes |-> qp, PrefixSet4 |-> NilPtr, PrefixSet6 |-> NilPtr])] :
        tp \in Optional({<<"2001:db8::/32">>}),
        pt \in Optional({"t1", "t2"}),
        pn \in Optional({Neighbors}),
        pp \in Optional(SeqsUpTo(TmplPrefixes, MaxPrefixes)),
        qp \in Optional({<<"192.0.2.0/24">>, <<"192.0.2.0">>}) }

InitTmpl ==
    /\ configBlob \in TmplBlobs
    /\ c = configBlob
    /\ pc = "tmpl resolve"
    /\ visited = {}
    /\ outcome = "running"
    /\ err = NoError
    /\ heap = <<>>
    /\ input = <<>>
    /\ output = ""
    /\ OptimizerOff

\* template == nil, for a peer that names a template.
TmplTemplateNotFound(peerData) ==
    IF peerData.Template \in {NilPtr, <<"">>} THEN FALSE
    ELSE peerData.Template[1] \notin DOMAIN c.Templates

\* The range over the peers that resolves them: a peer without neighbors of
\* its own or with a template that does not exist ends Load with an error;
\* else every field the peer leaves unset and its template sets is taken
\* from the template.  The fields modelled have the default "-".
TmplResolvePeers ==
    /\ pc = "tmpl resolve"
    /\ \/ \E peerName \in DOMAIN c.Peers :
             /\ \/ c.Peers[peerName].NeighborIPs = NilPtr
                \/ c.Peers[peerName].NeighborIPs = <<<<>>>>
             /\ ReturnError("[%s] has no neighbors defined", Text(peerName))
             /\ UNCHANGED c
       \/ \E peerName \in DOMAIN c.Peers :
             /\ \A other \in DOMAIN c.Peers : c.Peers[other].NeighborIPs \notin {NilPtr, <<<<>>>>}
             /\ TmplTemplateNotFound(c.Peers[peerName])
             /\ ReturnError("Template %s not found", c.Peers[peerName].Template)
             /\ UNCHANGED c
       \/ /\ \A peerName \in DOMAIN c.Peers :
                /\ c.Peers[peerName].NeighborIPs \notin {NilPtr, <<<<>>>>}
                /\ ~TmplTemplateNotFound(c.Peers[peerName])
          /\ c' = [c EXCEPT !.Peers =
                     [peerName \in DOMAIN c.Peers |->
                         IF c.Peers[peerName].Template \in {NilPtr, <<"">>}
                         THEN c.Peers[peerName]
                         ELSE [f \in DOMAIN c.Peers[peerName] |->
                                  IF /\ f # "Template"
                                     /\ c.Peers[peerName][f] = NilPtr
                                  THEN c.Templates[c.Peers[peerName].Template[1]][f]
                                  ELSE c.Peers[peerName][f]]]]
          /\ pc' = "tmpl peers"
          /\ UNCHANGED <<outcome, err>>
    /\ UNCHANGED <<configBlob, heap, visited, input, output, optimizerVars>>

\* The range over the prefixes of a peer.  acc is [PrefixSet4, PrefixSet6,
\* end, arg]: the two pointers, and how the range ended if it did.  A prefix
\* without a 4-byte form is appended through PrefixSet4 and one with a
\* 4-byte form through PrefixSet6; appending through a nil pointer panics.
RECURSIVE TmplBuildPrefixFilters(_, _)
TmplBuildPrefixFilters(prefixes, acc) ==
    IF prefixes = <<>> \/ acc.end # "" THEN acc
    ELSE TmplBuildPrefixFilters(Tail(prefixes),
             IF ParseCIDR(Head(prefixes)).err
             THEN [acc EXCEPT !.end = "error", !.arg = Text(Head(prefixes))]
             ELSE IF To4IsNil(ParseCIDR(Head(prefixes)))
             THEN IF acc.PrefixSet4 = NilPtr
                  THEN [acc EXCEPT !.end = "panic", !.arg = Text("PrefixSet4")]
                  ELSE [acc EXCEPT !.PrefixSet4 = <<Append(@[1], Head(prefixes))>>]
             ELSE IF acc.PrefixSet6 = NilPtr
                  THEN [acc EXCEPT !.end = "panic", !.arg = Text("PrefixSet6")]
                  ELSE [acc EXCEPT !.PrefixSet6 = <<Append(@[1], Head(prefixes))>>])

\* One pass of the second range over the peers, for the prefix filters.
TmplFinishPeerWith(peerName, built) ==
    /\ c' = [c EXCEPT !.Peers[peerName].PrefixSet4 = built.PrefixSet4,
                      !.Peers[peerName].PrefixSet6 = built.PrefixSet6]
    /\ visited' = visited \cup {peerName}
    /\ \/ /\ built.end = "error"
          /\ ReturnError("Invalid prefix: ", built.arg)
       \/ /\ built.end = "panic"
          /\ Panic(built.arg)
       \/ /\ built.end = ""
          /\ UNCHANGED <<pc, outcome, err>>

TmplFinishPeer(peerName) ==
    /\ pc = "tmpl peers"
    /\ peerName \in DOMAIN c.Peers \ visited
    /\ TmplFinishPeerWith(peerName,
          IF c.Peers[peerName].Prefixes = NilPtr
          THEN [PrefixSet4 |-> c.Peers[peerName].PrefixSet4,
                PrefixSet6 |-> c.Peers[peerName].PrefixSet6, end |-> "", arg |-> <<>>]
          ELSE TmplBuildPrefixFilters(c.Peers[peerName].Prefixes[1],
                   [PrefixSet4 |-> c.Peers[peerName].PrefixSet4,
                    PrefixSet6 |-> c.Peers[peerName].PrefixSet6, end |-> "", arg |-> <<>>]))
    /\ UNCHANGED <<configBlob, heap, input, output, optimizerVars>>

\* return &g, nil
TmplReturn ==
    /\ pc = "tmpl peers"
    /\ visited = DOMAIN c.Peers
    /\ outcome' = "config"
    /\ pc' = "done"
    /\ UNCHANGED <<configBlob, c, heap, visited, err, input, output, optimizerVars>>

NextTmpl ==
    \/ TmplResolvePeers
    \/ \E peerName \in {"p1", "p2"} : TmplFinishPeer(peerName)
    \/ TmplReturn

SpecTmpl == InitTmpl /\ [][NextTmpl]_vars

(***************************************************************************)
(* Properties of categorizeCommunity                                       *)
(***************************************************************************)
CharValue ==
    ("0" :> 0) @@ ("1" :> 1) @@ ("2" :> 2) @@ ("3" :> 3) @@ ("4" :> 4) @@
    ("5" :> 5) @@ ("6" :> 6) @@ ("7" :> 7) @@ ("8" :> 8) @@ ("9" :> 9)

\* The number a short run of digits denotes.
RECURSIVE NumberOf(_)
NumberOf(ds) ==
    IF ds = <<>> THEN 0
    ELSE 10 * NumberOf(SubSeq(ds, 1, Len(ds) - 1)) + CharValue[ds[Len(ds)]]

\* s is a decimal integer (an optional sign, then digits) whose value v
\* satisfies 0 <= v <= hiMax * 100000 + loMax.
IsIntegerUpTo(s, hiMax, loMax) ==
    LET signed  == s # <<>> /\ s[1] \in {"+", "-"}
        body    == IF signed THEN Tail(s) ELSE s
        n       == Len(body)
        nonzero == {i \in 1..n : body[i] # "0"}
        sig     == IF nonzero = {} THEN 0
                   ELSE n + 1 - (CHOOSE i \in nonzero : \A j \in nonzero : i <= j)
        lo      == NumberOf(SubSeq(body, IF n > 5 THEN n - 4 ELSE 1, n))
        hi      == NumberOf(SubSeq(body, IF n > 10 THEN n - 9 ELSE 1, n - 5))
    IN  /\ body # <<>>
        /\ \A i \in 1..n : body[i] \in DOMAIN CharValue
        /\ \/ sig = 0
           \/ /\ s[1] # "-"
              /\ sig <= 10
              /\ hi < hiMax \/ (hi = hiMax /\ lo <= loMax)

PositionsOf(s, ch) == {i \in 1..Len(s) : s[i] = ch}

\* Exactly two components around one comma, both integers in [0, 65535].
IsStandardForm(s) ==
    /\ Cardinality(PositionsOf(s, ",")) = 1
    /\ LET i == CHOOSE k \in PositionsOf(s, ",") : TRUE
       IN  /\ IsIntegerUpTo(SubSeq(s, 1, i - 1), 0, 65535)
           /\ IsIntegerUpTo(SubSeq(s, i + 1, Len(s)), 0, 65535)

\* Exactly three components around two colons, all integers in
\* [0, 4294967295].
IsLargeForm(s) ==
    /\ Cardinality(PositionsOf(s, ":")) = 2
    /\ LET i == CHOOSE k \in PositionsOf(s, ":") : \A m \in PositionsOf(s, ":") : k <= m
           j == CHOOSE k \in PositionsOf(s, ":") : \A m \in PositionsOf(s, ":") : k >= m
       IN  /\ IsIntegerUpTo(SubSeq(s, 1, i - 1), 42949, 67295)
           /\ IsIntegerUpTo(SubSeq(s, i + 1, j - 1), 42949, 67295)
           /\ IsIntegerUpTo(SubSeq(s, j + 1, Len(s)), 42949, 67295)

\* C5: categorizeCommunity returns "standard" exactly for the tokens of two
\* comma-separated components that are both integers in [0, 65535]; every
\* other token of two comma-separated components is invalid ("").
C5_StandardExactly ==
    pc = "categorized" =>
        /\ (output = "standard") <=> IsStandardForm(input)
        /\ (Cardinality(PositionsOf(input, ",")) = 1 /\ ~IsStandardForm(input))
              => output = ""

C5_Witness ==
    /\ pc = "categorized"
    /\ input = <<"6","5","5","3","5",",","6","5","5","3","5">>
    /\ output = "standard"

\* C6: categorizeCommunity returns "large" exactly for the tokens of three
\* colon-separated components that are all integers in [0, 4294967295];
\* every token that is neither of the two forms is invalid ("").
C6_LargeExactly ==
    pc = "categorized" =>
        /\ (output = "large") <=> IsLargeForm(input)
        /\ (~IsStandardForm(input) /\ ~IsLargeForm(input)) => output = ""

C6_Witness ==
    /\ pc = "categorized"
    /\ input = <<"4","2","9","4","9","6","7","2","9","5",":","0",":",
                 "4","2","9","4","9","6","7","2","9","5">>
    /\ output = "large"

(***************************************************************************)
(* Properties of Load.  What the document says, read off configBlob, is    *)
(* set against what Load made of it in c and heap.                          *)
(***************************************************************************)
LivePeers == {p \in DOMAIN configBlob.Peers : ~configBlob.Peers[p].null}

LiveTemplates == {t \in DOMAIN configBlob.Templates : ~configBlob.Templates[t].null}

\* The keys the document gives peer p.
OwnKeys(p) == IF configBlob.Peers[p].null THEN <<>> ELSE configBlob.Peers[p].keys

\* The template the document has peer p name: <<>> for none, else <<name>>.
TemplateOf(p) ==
    IF "Template" \notin DOMAIN OwnKeys(p) THEN <<>>
    ELSE IF OwnKeys(p)["Template"] = "" THEN <<>>
    ELSE <<OwnKeys(p)["Template"]>>

NamesExistingTemplate(p) ==
    IF TemplateOf(p) = <<>> THEN FALSE ELSE TemplateOf(p)[1] \in LiveTemplates

\* The keys the document gives the template of peer p.
TemplateKeys(p) ==
    IF NamesExistingTemplate(p) THEN configBlob.Templates[TemplateOf(p)[1]].keys ELSE <<>>

\* The keys of peer p by the rule of the specification: its own, and those
\* of its template it does not set itself.
EffectiveKeys(p) ==
    [f \in DOMAIN OwnKeys(p) \cup (DOMAIN TemplateKeys(p) \ {"Template"}) |->
        IF f \in DOMAIN OwnKeys(p) THEN OwnKeys(p)[f] ELSE TemplateKeys(p)[f]]

IsSet(p, f) == c.Peers[p].field[f] # NilPtr

ValueOf(p, f) == heap[c.Peers[p].field[f]]

\* A list field of the resolved peer, empty when it was never created.
ListOf(p, f) == IF IsSet(p, f) THEN ValueOf(p, f) ELSE <<>>

Holds(p, f, value) == IF IsSet(p, f) THEN ValueOf(p, f) = value ELSE FALSE

\* As Holds, but for announce-originated under an empty origin-prefix list,
\* which holds false.
HoldsNormalised(p, f, value) ==
    IF ~IsSet(p, f) THEN FALSE
    ELSE IF f = "AnnounceOriginated" /\ configBlob.Prefixes = <<>>
    THEN ValueOf(p, f) = FALSE
    ELSE ValueOf(p, f) = value

IsInvalidToken(token) == ~IsStandardForm(token) /\ ~IsLargeForm(token)

CommunitySources ==
    {"ImportCommunities", "ExportCommunities", "AnnounceCommunities", "RemoveCommunities"}

\* The community lists of the resolved peers that hold a token of neither
\* form, as <<peer, field>>.
InvalidCommunityLists ==
    {pf \in LivePeers \X CommunitySources :
        IF pf[2] \notin DOMAIN EffectiveKeys(pf[1]) THEN FALSE
        ELSE \E i \in DOMAIN EffectiveKeys(pf[1])[pf[2]] :
                IsInvalidToken(EffectiveKeys(pf[1])[pf[2]][i])}

InvalidSRDTokens ==
    {configBlob.SRDCommunities[i] : i \in {k \in DOMAIN configBlob.SRDCommunities :
                                              IsInvalidToken(configBlob.SRDCommunities[k])}}

MissingTemplates ==
    {name \in {TemplateOf(p)[1] : p \in {q \in LivePeers : TemplateOf(q) # <<>>}} :
        name \notin DOMAIN configBlob.Templates}

ChainedTemplates ==
    {t \in LiveTemplates :
        IF "Template" \notin DOMAIN configBlob.Templates[t].keys THEN FALSE
        ELSE configBlob.Templates[t].keys["Template"] # ""}

\* What is wrong with the document, by the step of Load that stops at it.
DocFaults ==
    {fault \in {"yaml", "validation", "null template", "chained template", "hostname",
                "null peer", "neighbors", "missing template", "origin prefix",
                "srd community", "static", "bfd", "vrrp", "rtr", "peer prefix",
                "peer community"} :
        CASE fault = "yaml"             -> ~configBlob.wellFormed
          [] fault = "validation"       -> configBlob.ASN = 0 \/ configBlob.RouterID = ""
          [] fault = "null template"    -> LiveTemplates # DOMAIN configBlob.Templates
          [] fault = "chained template" -> ChainedTemplates # {}
          [] fault = "hostname"         -> configBlob.Hostname = ""
          [] fault = "null peer"        -> LivePeers # DOMAIN configBlob.Peers
          [] fault = "neighbors"        ->
                \E p \in LivePeers :
                    IF "NeighborIPs" \notin DOMAIN OwnKeys(p) THEN TRUE
                    ELSE OwnKeys(p)["NeighborIPs"] = <<>>
          [] fault = "missing template" -> MissingTemplates # {}
          [] fault = "origin prefix"    ->
                \E i \in DOMAIN configBlob.Prefixes : ParseCIDR(configBlob.Prefixes[i]).err
          [] fault = "srd community"    -> InvalidSRDTokens # {}
          [] fault = "static"           ->
                \E prefix \in DOMAIN configBlob.Statics :
                    ParseCIDR(prefix).err \/ ParseIP(configBlob.Statics[prefix]).err
          [] fault = "bfd"              ->
                \E b \in DOMAIN configBlob.BFDInstances :
                    IF configBlob.BFDInstances[b].Neighbor = <<>> THEN TRUE
                    ELSE ParseIP(configBlob.BFDInstances[b].Neighbor[1]).err
          [] fault = "vrrp"             ->
                \E v \in DOMAIN configBlob.VRRPInstances :
                    \/ configBlob.VRRPInstances[v].null
                    \/ configBlob.VRRPInstances[v].State \notin {"primary", "backup"}
                    \/ \E i \in DOMAIN configBlob.VRRPInstances[v].VIPs :
                          ParseCIDR(configBlob.VRRPInstances[v].VIPs[i]).err
          [] fault = "rtr"              ->
                IF configBlob.RTRServer = <<>> THEN FALSE
                ELSE IF Len(Split(configBlob.RTRServer, ":")) # 2 THEN TRUE
                ELSE Atoi(Split(configBlob.RTRServer, ":")[2]).err
          [] fault = "peer prefix"      ->
                \E p \in LivePeers :
                    IF "Prefixes" \notin DOMAIN EffectiveKeys(p) THEN FALSE
                    ELSE \E i \in DOMAIN EffectiveKeys(p)["Prefixes"] :
                            ParseCIDR(EffectiveKeys(p)["Prefixes"][i]).err
          [] fault = "peer community"   -> InvalidCommunityLists # {}}

\* C1 as stated: for every peer that names an existing template and every
\* field F other than Template, the resolved peer holds the template's value
\* of F when the peer leaves F unset and the template sets it, and the peer's
\* own value of F when the peer sets it, whatever the template holds.
C1_TemplateMergeAsStated ==
    outcome = "config" =>
        \A p \in LivePeers : \A f \in ConfigurableFields \ {"Template"} :
            NamesExistingTemplate(p) =>
                /\ (f \notin DOMAIN OwnKeys(p) /\ f \in DOMAIN TemplateKeys(p))
                      => Holds(p, f, TemplateKeys(p)[f])
                /\ f \in DOMAIN OwnKeys(p) => Holds(p, f, OwnKeys(p)[f])

\* C1, amended: the same, except that announce-originated holds false when
\* the origin-prefix list is empty, whichever side supplied it.  A list-valued
\* field holds the whole list of the side it is taken from.
C1_TemplateMerge ==
    outcome = "config" =>
        \A p \in LivePeers : \A f \in ConfigurableFields \ {"Template"} :
            NamesExistingTemplate(p) =>
                /\ (f \notin DOMAIN OwnKeys(p) /\ f \in DOMAIN TemplateKeys(p))
                      => HoldsNormalised(p, f, TemplateKeys(p)[f])
                /\ f \in DOMAIN OwnKeys(p) => HoldsNormalised(p, f, OwnKeys(p)[f])

\* Load has returned a Config in which p1 took its prefixes whole from the
\* template and kept its own import communities against the template's.
C1_Witness ==
    /\ outcome = "config"
    /\ "p1" \in LivePeers
    /\ NamesExistingTemplate("p1")
    /\ "Prefixes" \notin DOMAIN OwnKeys("p1")
    /\ "Prefixes" \in DOMAIN TemplateKeys("p1")
    /\ Holds("p1", "Prefixes", <<"2001:db8::/32">>)
    /\ "ImportCommunities" \in DOMAIN OwnKeys("p1")
    /\ "ImportCommunities" \in DOMAIN TemplateKeys("p1")
    /\ TemplateKeys("p1")["ImportCommunities"] = <<Standard100>>
    /\ Holds("p1", "ImportCommunities", <<Large100, Standard100>>)

\* No step of Load has touched a peer: every peer is as the document
\* decoded, without protocol name, boolean options, inherited or default
\* values.
PeersUntouched ==
    \A p \in DOMAIN c.Peers \cap LivePeers : \A f \in FieldNames :
        IsSet(p, f) <=> f \in DOMAIN OwnKeys(p)

\* C2: if a template names a template, Load never reaches the peers: at
\* every moment, the rejection included, no peer has a protocol name, a merged
\* or a default value; no Config is returned; and a fatal exit reports one of
\* the templates that name a template.
C2_ChainedTemplateRejectedFirst ==
    ChainedTemplates # {} =>
        /\ pc \in {"unmarshal", "validate", "templates", "done"}
        /\ outcome # "config"
        /\ PeersUntouched
        /\ outcome = "fatal" =>
              /\ err.msg = "Templates must not have a template field set, but %s does"
              /\ err.arg[1] \in ChainedTemplates
        /\ (DocFaults = {"chained template"} /\ pc = "done") => outcome = "fatal"

\* Load has exited on template t2, which names t1, with two peers decoded and
\* neither touched.
C2_Witness ==
    /\ pc = "done"
    /\ outcome = "fatal"
    /\ err.arg = Text("t2")
    /\ ChainedTemplates = {"t2"}
    /\ DOMAIN c.Peers = {"p1", "p2"}
    /\ LivePeers = {"p1", "p2"}
    /\ PeersUntouched

\* C3: if a peer names a template the templates map does not hold, Load
\* returns no Config, however many peers it resolved before; its "not found"
\* exit names a missing template; and it ends in that exit whenever nothing
\* else is wrong with the document.
C3_MissingTemplateFails ==
    MissingTemplates # {} =>
        /\ outcome # "config"
        /\ pc \in {"unmarshal", "validate", "templates", "peers", "done"}
        /\ err.msg = "Template %s not found" =>
              /\ outcome = "fatal"
              /\ err.arg[1] \in MissingTemplates
        /\ (DocFaults = {"missing template"} /\ pc = "done") =>
              /\ outcome = "fatal"
              /\ err.msg = "Template %s not found"

\* Load has exited on p2's template t3 after resolving p1.
C3_Witness ==
    /\ pc = "done"
    /\ outcome = "fatal"
    /\ err = [msg |-> "Template %s not found", arg |-> Text("t3")]
    /\ MissingTemplates = {"t3"}
    /\ visited = {"p1"}
    /\ IsSet("p1", "LocalPref")

\* The default literals of the Peer struct, for the fields that have one.
DeclaredDefault ==
    [ASN                        |-> 0,
     LocalPref                  |-> 100,
     MaxPrefixTripAction        |-> "disable",
     FilterNeverViaRouteServers |-> FALSE,
     AnnounceOriginated         |-> TRUE]

\* The value the document gives field f of peer p: the peer's, else its
\* template's, else the declared default.
ExpectedValue(p, f) ==
    IF f \in DOMAIN EffectiveKeys(p) THEN EffectiveKeys(p)[f] ELSE DeclaredDefault[f]

\* C4 as stated: after a successful Load every field with a declared default
\* holds the peer's value, else the template's, else the default literal.
C4_DefaultsAsStated ==
    outcome = "config" =>
        \A p \in LivePeers : \A f \in DOMAIN DeclaredDefault :
            Holds(p, f, ExpectedValue(p, f))

\* C4, amended: the same, except that announce-originated holds false when
\* the origin-prefix list is empty.
C4_Defaults ==
    outcome = "config" =>
        /\ DOMAIN DeclaredDefault =
              {f \in FieldNames : FieldOf(f).default # "-"}
        /\ \A p \in LivePeers : \A f \in DOMAIN DeclaredDefault :
              HoldsNormalised(p, f, ExpectedValue(p, f))

\* Load has returned a Config in which p1 holds its own ASN,
\* its template's max-prefix action and the default local preference.
C4_Witness ==
    /\ outcome = "config"
    /\ "p1" \in LivePeers
    /\ NamesExistingTemplate("p1")
    /\ "ASN" \in DOMAIN OwnKeys("p1")
    /\ "ASN" \in DOMAIN TemplateKeys("p1")
    /\ Holds("p1", "ASN", 65001)
    /\ "MaxPrefixTripAction" \notin DOMAIN OwnKeys("p1")
    /\ Holds("p1", "MaxPrefixTripAction", "restart")
    /\ "LocalPref" \notin DOMAIN EffectiveKeys("p1")
    /\ Holds("p1", "LocalPref", 100)
    /\ Holds("p1", "AnnounceOriginated", TRUE)

\* A token with every ":" made a ",".
ReplaceColons(token) == [i \in DOMAIN token |-> IF token[i] = ":" THEN "," ELSE token[i]]

RewriteAll(tokens) == [i \in DOMAIN tokens |-> ReplaceColons(tokens[i])]

\* The standard and the large list derived from each community list.
DerivedLists ==
    [ImportCommunities   |-> <<"ImportStandardCommunities", "ImportLargeCommunities">>,
     ExportCommunities   |-> <<"ExportStandardCommunities", "ExportLargeCommunities">>,
     AnnounceCommunities |-> <<"AnnounceStandardCommunities", "AnnounceLargeCommunities">>,
     RemoveCommunities   |-> <<"RemoveStandardCommunities", "RemoveLargeCommunities">>]

\* C7: after a successful Load, each community list of each peer is split
\* in two: the standard list is its standard-form tokens, unchanged and in
\* input order; the large list is its large-form tokens in input order, each
\* with ":" replaced by ","; the two together are as long as the input, which
\* itself is unchanged.
C7_CommunitiesSplit ==
    outcome = "config" =>
        \A p \in LivePeers : \A f \in CommunitySources :
            IF f \in DOMAIN EffectiveKeys(p)
            THEN /\ Holds(p, f, EffectiveKeys(p)[f])
                 /\ ListOf(p, DerivedLists[f][1]) =
                        SelectSeq(EffectiveKeys(p)[f], IsStandardForm)
                 /\ ListOf(p, DerivedLists[f][2]) =
                        RewriteAll(SelectSeq(EffectiveKeys(p)[f], IsLargeForm))
                 /\ Len(ListOf(p, DerivedLists[f][1])) + Len(ListOf(p, DerivedLists[f][2]))
                        = Len(EffectiveKeys(p)[f])
            ELSE ~IsSet(p, DerivedLists[f][1]) /\ ~IsSet(p, DerivedLists[f][2])

\* Load has returned a Config in which p1's two standard import communities
\* are in input order, and its large remove community is rewritten.
C7_Witness ==
    /\ outcome = "config"
    /\ "p1" \in LivePeers
    /\ Holds("p1", "ImportCommunities", <<StandardTop, Standard100>>)
    /\ Holds("p1", "ImportStandardCommunities", <<StandardTop, Standard100>>)
    /\ ~IsSet("p1", "ImportLargeCommunities")
    /\ Holds("p1", "RemoveCommunities", <<Large100>>)
    /\ Holds("p1", "RemoveLargeCommunities",
             << <<"1","0","0",",","2","0","0",",","3","0","0">> >>)

CommunityMessages ==
    [ImportCommunities   |-> "Invalid import community: ",
     ExportCommunities   |-> "Invalid export community: ",
     AnnounceCommunities |-> "Invalid announce community: ",
     RemoveCommunities   |-> "Invalid remove community: "]

\* The first token of a list that is of neither form.
FirstInvalid(tokens) ==
    tokens[CHOOSE i \in DOMAIN tokens :
              /\ IsInvalidToken(tokens[i])
              /\ \A j \in 1..(i - 1) : ~IsInvalidToken(tokens[j])]

\* C8: if a community list of a peer, or the SRD list, holds an invalid
\* token, Load returns no Config; an "Invalid ... community" error names the
\* list and the first invalid token of it; and Load ends in such an error
\* whenever nothing else is wrong with the document.
C8_InvalidCommunityFails ==
    /\ (InvalidCommunityLists # {} \/ InvalidSRDTokens # {}) => outcome # "config"
    /\ \A f \in CommunitySources :
          err.msg = CommunityMessages[f] =>
              /\ outcome = "error"
              /\ \E p \in LivePeers :
                    /\ <<p, f>> \in InvalidCommunityLists
                    /\ err.arg = FirstInvalid(EffectiveKeys(p)[f])
    /\ err.msg = "Invalid SRD community: " =>
          /\ outcome = "error"
          /\ InvalidSRDTokens # {}
          /\ err.arg = FirstInvalid(configBlob.SRDCommunities)
    /\ (/\ pc = "done"
        /\ DocFaults # {}
        /\ DocFaults \subseteq {"peer community", "srd community"}) =>
          /\ outcome = "error"
          /\ err.msg \in {CommunityMessages[f] : f \in CommunitySources}
                         \cup {"Invalid SRD community: "}

\* Load has returned the error of p1's export list, after its import list
\* was found good.
C8_Witness ==
    /\ pc = "done"
    /\ outcome = "error"
    /\ err = [msg |-> "Invalid export community: ", arg |-> OutOfRange]
    /\ Holds("p1", "ImportStandardCommunities", <<StandardTop, Standard100>>)
    /\ <<"p1", "ExportCommunities">> \in InvalidCommunityLists

\* The address of the prefix has a 4-byte form: an IPv4 address, or an
\* IPv4-mapped IPv6 address.
HasFourByteForm(prefix) ==
    prefix \in {"192.0.2.0/24", "198.51.100.0/24", "::ffff:192.0.2.0/120"}

LacksFourByteForm(prefix) == ~HasFourByteForm(prefix)

\* v4 and v6 are the input split by family, in input order and with the
\* multiplicity of the input.
IsPartitionByFamily(prefixes, v4, v6) ==
    /\ v4 = SelectSeq(prefixes, HasFourByteForm)
    /\ v6 = SelectSeq(prefixes, LacksFourByteForm)
    /\ Len(v4) + Len(v6) = Len(prefixes)
    /\ {v4[i] : i \in DOMAIN v4} \cap {v6[i] : i \in DOMAIN v6} = {}

\* C9: after a successful Load, the origin prefixes are split into
\* Prefixes4 and Prefixes6, and the prefixes of each peer into PrefixSet4 and
\* PrefixSet6: every prefix in the list of its family and in no other, as
\* often as in the input and in input order.
C9_PrefixesPartitioned ==
    outcome = "config" =>
        /\ IsPartitionByFamily(configBlob.Prefixes, c.Prefixes4, c.Prefixes6)
        /\ \A p \in LivePeers :
              IF "Prefixes" \in DOMAIN EffectiveKeys(p)
              THEN IsPartitionByFamily(EffectiveKeys(p)["Prefixes"],
                                       ListOf(p, "PrefixSet4"), ListOf(p, "PrefixSet6"))
              ELSE ~IsSet(p, "PrefixSet4") /\ ~IsSet(p, "PrefixSet6")

\* Load has returned a Config with an IPv4-mapped and an IPv6 origin prefix
\* and a peer with a prefix of each family.
C9_Witness ==
    /\ outcome = "config"
    /\ configBlob.Prefixes = <<"::ffff:192.0.2.0/120", "2001:db8::/32">>
    /\ c.Prefixes4 = <<"::ffff:192.0.2.0/120">>
    /\ c.Prefixes6 = <<"2001:db8::/32">>
    /\ "p1" \in LivePeers
    /\ Holds("p1", "Prefixes", <<"2001:db8::/32", "192.0.2.0/24">>)
    /\ Holds("p1", "PrefixSet4", <<"192.0.2.0/24">>)
    /\ Holds("p1", "PrefixSet6", <<"2001:db8::/32">>)

\* C10: if the origin-prefix list is empty, a successful Load leaves every
\* peer with announce-originated false, whatever the peer, its template or
\* the default said, and reports no error; an empty origin-prefix list alone
\* never makes Load fail.
C10_NothingToOriginate ==
    configBlob.Prefixes = <<>> =>
        /\ outcome = "config" =>
              /\ err = NoError
              /\ \A p \in LivePeers : Holds(p, "AnnounceOriginated", FALSE)
        /\ (DocFaults = {} /\ pc = "done") => outcome = "config"

\* Load has returned a Config for a document without origin prefixes: p1
\* set announce-originated itself, p2 took it from the template, both hold
\* false.
C10_Witness ==
    /\ outcome = "config"
    /\ configBlob.Prefixes = <<>>
    /\ LivePeers = {"p1", "p2"}
    /\ "AnnounceOriginated" \in DOMAIN OwnKeys("p1")
    /\ OwnKeys("p1")["AnnounceOriginated"] = TRUE
    /\ "AnnounceOriginated" \notin DOMAIN OwnKeys("p2")
    /\ "AnnounceOriginated" \in DOMAIN TemplateKeys("p2")
    /\ TemplateKeys("p2")["AnnounceOriginated"] = TRUE
    /\ Holds("p1", "AnnounceOriginated", FALSE)
    /\ Holds("p2", "AnnounceOriginated", FALSE)

\* C11: Load never returns a Config that holds a peer whose ASN neither the
\* peer nor its template configures.
C11_UnconfiguredASNRejected ==
    outcome = "config" =>
        \A p \in LivePeers : "ASN" \in DOMAIN EffectiveKeys(p)

\* The peers of the document that have no neighbor address after the merge
\* of the specification.
WithoutNeighbors ==
    {p \in LivePeers :
        IF "NeighborIPs" \notin DOMAIN EffectiveKeys(p) THEN TRUE
        ELSE EffectiveKeys(p)["NeighborIPs"] = <<>>}

\* C12: the neighbor check follows the template merge.  A document in which
\* nothing is wrong but that some peers take their neighbors from their
\* template is resolved, every peer holding its neighbors by the rule of the
\* merge; and the "no neighbors" exit names a peer that has none after the
\* merge.
C12_MergeBeforeNeighborCheck ==
    /\ (pc = "done" /\ DocFaults \subseteq {"neighbors"} /\ WithoutNeighbors = {}) =>
          /\ outcome = "config"
          /\ \A p \in LivePeers : Holds(p, "NeighborIPs", EffectiveKeys(p)["NeighborIPs"])
    /\ err.msg = "[%s] has no neighbors defined" => err.arg[1] \in WithoutNeighbors

\* Every step of both ranges over the peers has been applied to peer p: the
\* protocol name and the boolean options are there, every field its own
\* body or its template sets, or that has a default, holds a value, the
\* prefixes are split by family, every community is in one of the two lists
\* of its kind, and announce-originated is false when there is nothing to
\* originate.
FullyResolved(p) ==
    /\ ~c.Peers[p].null
    /\ Holds(p, "ProtocolName", Sanitize(p))
    /\ IsSet(p, "BooleanOptions")
    /\ \A f \in DOMAIN EffectiveKeys(p) \ {"Template"} : IsSet(p, f)
    /\ \A f \in DOMAIN DeclaredDefault : IsSet(p, f)
    /\ IsPartitionByFamily(ListOf(p, "Prefixes"), ListOf(p, "PrefixSet4"),
                           ListOf(p, "PrefixSet6"))
    /\ \A i \in DOMAIN CommunityLists :
          Len(ListOf(p, CommunityLists[i].source)) =
              Len(ListOf(p, CommunityLists[i].standard)) +
              Len(ListOf(p, CommunityLists[i].large))
    /\ configBlob.Prefixes = <<>> => Holds(p, "AnnounceOriginated", FALSE)

\* C13: Load ends in exactly one of two ways.  Either it returns a Config,
\* and then there is no error and every peer of the document is in the Config
\* with every resolution step applied; or it returns an error, exits or
\* panics, and then no Config is returned.  Before it ends it has returned
\* nothing.
C13_AllOrNothing ==
    /\ pc = "done" <=> outcome \in {"config", "error", "fatal", "panic"}
    /\ pc # "done" <=> outcome = "running"
    /\ outcome = "config" =>
          /\ err = NoError
          /\ DOMAIN c.Peers = DOMAIN configBlob.Peers
          /\ \A p \in DOMAIN c.Peers : FullyResolved(p)
    /\ outcome \in {"error", "fatal", "panic"} => err # NoError
    /\ err # NoError => outcome \in {"error", "fatal", "panic"}

\* Load has returned a Config with two peers, p2 by way of template t1,
\* both fully resolved, p1 with its prefixes split.
C13_Witness ==
    /\ outcome = "config"
    /\ err = NoError
    /\ DOMAIN c.Peers = {"p1", "p2"}
    /\ FullyResolved("p1")
    /\ FullyResolved("p2")
    /\ NamesExistingTemplate("p2")
    /\ Holds("p1", "PrefixSet6", <<"2001:db8::/32">>)
    /\ Holds("p2", "PrefixSet4", <<"198.51.100.0/24">>)

\* s is a decimal integer: an optional sign, then one or more digits.
IsDecimalInteger(s) ==
    IF s = <<>> THEN FALSE
    ELSE LET body == IF s[1] \in {"+", "-"} THEN Tail(s) ELSE s
         IN  body # <<>> /\ \A i \in 1..Len(body) : body[i] \in DOMAIN CharValue

\* The number a short decimal integer denotes.
SignedNumberOf(s) ==
    IF s[1] = "-" THEN 0 - NumberOf(Tail(s))
    ELSE IF s[1] = "+" THEN NumberOf(Tail(s))
    ELSE NumberOf(s)

\* The number a small int of the Config holds.
NumberHeld(n) == IF n.neg THEN 0 - NumberOf(n.mag) ELSE NumberOf(n.mag)

\* The endpoint of the document, taken apart at its colons.
EndpointParts == Split(configBlob.RTRServer, ":")

\* The endpoint has exactly two parts, the second a decimal integer.
WellFormedEndpoint ==
    IF Len(EndpointParts) # 2 THEN FALSE ELSE IsDecimalInteger(EndpointParts[2])

\* RTRServerHost and RTRServerPort are the two parts of the endpoint.
EndpointStored ==
    /\ WellFormedEndpoint
    /\ c.RTRServerHost = EndpointParts[1]
    /\ NumberHeld(c.RTRServerPort) = SignedNumberOf(EndpointParts[2])

\* C14 as stated: an endpoint that does not split at ":" into exactly two
\* parts, or whose second part is no integer, is never followed by a Config;
\* and a returned Config holds the host part and the port of a well-formed
\* endpoint.
C14_EndpointAsStated ==
    /\ ~WellFormedEndpoint => outcome # "config"
    /\ outcome = "config" => EndpointStored

RTRServerMessages ==
    {"Invalid rtr-server '%s' format should be host:port", "Invalid RTR server port %s"}

\* C14, amended: the same for every endpoint but the empty one.  The empty
\* endpoint is not parsed: Load can succeed on it, and then leaves
\* RTRServerHost empty and RTRServerPort zero.  An endpoint that is rejected
\* is rejected by a fatal exit, which follows whenever nothing else is wrong
\* with the document.
C14_Endpoint ==
    /\ (configBlob.RTRServer # <<>> /\ ~WellFormedEndpoint) =>
          /\ outcome # "config"
          /\ (DocFaults = {"rtr"} /\ pc = "done") =>
                /\ outcome = "fatal"
                /\ err.msg \in RTRServerMessages
    /\ err.msg \in RTRServerMessages =>
          /\ outcome = "fatal"
          /\ configBlob.RTRServer # <<>>
          /\ ~WellFormedEndpoint
    /\ outcome = "config" =>
          IF configBlob.RTRServer = <<>>
          THEN c.RTRServerHost = <<>> /\ NumberHeld(c.RTRServerPort) = 0
          ELSE EndpointStored

\* Load has returned a Config for the endpoint ":082", with an empty host
\* and port 82.
C14_Witness ==
    /\ outcome = "config"
    /\ configBlob.RTRServer = <<":", "0", "8", "2">>
    /\ c.RTRServerHost = <<>>
    /\ NumberHeld(c.RTRServerPort) = 82

\* The texts of the documents that are a prefix in CIDR form, and those that
\* are an IP address.
IsCIDR(prefix) ==
    prefix \in {"192.0.2.0/24", "198.51.100.0/24", "2001:db8::/32", "::ffff:192.0.2.0/120"}

IsIPAddress(str) == str \in {"192.0.2.254", "2001:db8::fe", "192.0.2.1", "2001:db8::1"}

BadStaticPrefixes == {prefix \in DOMAIN configBlob.Statics : ~IsCIDR(prefix)}

BadStaticNexthops ==
    {configBlob.Statics[prefix] : prefix \in {q \in DOMAIN configBlob.Statics :
                                                  ~IsIPAddress(configBlob.Statics[q])}}

StaticMessages == {"Invalid static prefix: ", "Invalid static nexthop: "}

\* C15: after a successful Load every static route of the document is in
\* exactly one of Statics4 and Statics6, under its prefix and with its next
\* hop, in Statics4 if the prefix has a 4-byte form and in Statics6 if not,
\* and the two tables hold nothing else.  If a prefix is no CIDR or a next hop
\* no IP address, Load returns no Config; the error it returns for a static
\* route names a bad prefix or a bad next hop of the document; and it returns
\* such an error whenever nothing else is wrong with the document.
C15_StaticsSplit ==
    /\ outcome = "config" =>
          /\ DOMAIN c.Statics4 \cap DOMAIN c.Statics6 = {}
          /\ DOMAIN c.Statics4 \cup DOMAIN c.Statics6 = DOMAIN configBlob.Statics
          /\ \A prefix \in DOMAIN configBlob.Statics :
                IF HasFourByteForm(prefix)
                THEN /\ prefix \in DOMAIN c.Statics4
                     /\ c.Statics4[prefix] = configBlob.Statics[prefix]
                ELSE /\ prefix \in DOMAIN c.Statics6
                     /\ c.Statics6[prefix] = configBlob.Statics[prefix]
    /\ (BadStaticPrefixes # {} \/ BadStaticNexthops # {}) =>
          /\ outcome # "config"
          /\ (DocFaults = {"static"} /\ pc = "done") =>
                /\ outcome = "error"
                /\ err.msg \in StaticMessages
    /\ err.msg = "Invalid static prefix: " =>
          /\ outcome = "error"
          /\ err.arg[1] \in BadStaticPrefixes
    /\ err.msg = "Invalid static nexthop: " =>
          /\ outcome = "error"
          /\ err.arg[1] \in BadStaticNexthops

\* Load has returned a Config with a v4 route by way of a v6 next hop in
\* Statics4 and a v6 route by way of a v4 next hop in Statics6.
C15_Witness ==
    /\ outcome = "config"
    /\ DOMAIN configBlob.Statics = {"192.0.2.0/24", "2001:db8::/32"}
    /\ c.Statics4 = ("192.0.2.0/24" :> "2001:db8::fe")
    /\ c.Statics6 = ("2001:db8::/32" :> "192.0.2.254")

\* Every template is as the document decoded: a field the document sets
\* holds the value of the document, and no other field holds a value.
TemplatesAsParsed ==
    \A t \in LiveTemplates : \A f \in FieldNames :
        IF f \in DOMAIN configBlob.Templates[t].keys
        THEN IF c.Templates[t].field[f] = NilPtr THEN FALSE
             ELSE heap[c.Templates[t].field[f]] = configBlob.Templates[t].keys[f]
        ELSE c.Templates[t].field[f] = NilPtr

\* C16: when Load has finished, with a Config or without, every field of
\* every template holds the value it had when the document was decoded.
C16_TemplatesImmutable ==
    (pc = "done" /\ configBlob.wellFormed) => TemplatesAsParsed

\* The fields a document can set and that the struct gives no default.
WithoutDefault == {f \in ConfigurableFields : FieldOf(f).default = "-"}

\* C17: when Load has finished, a field of a peer that can be configured,
\* has the default "-", and is set neither by the peer nor by its template,
\* holds no value.
C17_NoDefaultStaysUnset ==
    (pc = "done" /\ configBlob.wellFormed) =>
        \A p \in LivePeers : \A f \in WithoutDefault :
            f \notin DOMAIN EffectiveKeys(p) => ~IsSet(p, f)

\* Load has returned a Config in which p1, by way of template t1, has a
\* local preference but neither description, prefixes nor import communities,
\* none of which the document gives it.
C17_Witness ==
    /\ outcome = "config"
    /\ "p1" \in LivePeers
    /\ NamesExistingTemplate("p1")
    /\ {"Description", "Prefixes", "ImportCommunities"} \cap DOMAIN EffectiveKeys("p1") = {}
    /\ {"Description", "Prefixes", "ImportCommunities"} \subseteq WithoutDefault
    /\ IsSet("p1", "LocalPref")
    /\ ~IsSet("p1", "Description")
    /\ ~IsSet("p1", "Prefixes")
    /\ ~IsSet("p1", "ImportCommunities")

(***************************************************************************)
(* Properties of the route optimizer                                       *)
(***************************************************************************)
\* The number of results that have gone to the cache of a target: one for
\* each cycle whose probe of the target has returned.
InsertionsInto(target) == IF target \in inFlight THEN cycle - 1 ELSE cycle

\* Every cache holds at most CacheSize results, and they are the latest that
\* went to it, oldest first: the results of the last cycles, one of each.
CacheHoldsLatest ==
    \A target \in ProbeTargets :
        /\ Len(Db[target]) <= optimizer.CacheSize
        /\ Len(Db[target]) = IF InsertionsInto(target) < optimizer.CacheSize
                             THEN InsertionsInto(target)
                             ELSE optimizer.CacheSize
        /\ \A i \in DOMAIN Db[target] :
              Db[target][i].Time = InsertionsInto(target) - Len(Db[target]) + i

\* A step that changes a cache puts the result of the running cycle at its
\* end: behind all it held if it was below capacity, and behind all but the
\* oldest, which goes, if it was at capacity.
CacheGrowsAtEnd ==
    \A target \in ProbeTargets :
        Db'[target] # Db[target] =>
            /\ Db'[target] # <<>>
            /\ Db'[target][Len(Db'[target])].Time = cycle
            /\ SubSeq(Db'[target], 1, Len(Db'[target]) - 1) =
                  IF Len(Db[target]) < optimizer.CacheSize
                  THEN Db[target]
                  ELSE Tail(Db[target])

\* C18: the cache of every probe target never holds more than the configured
\* cache size; an insertion below capacity appends, an insertion at capacity
\* evicts exactly the oldest entry and appends; so the cache always holds the
\* most recent results in the order they were inserted.
C18_CacheBounded == []CacheHoldsLatest /\ [][CacheGrowsAtEnd]_vars

\* With a cache size of two and no exit on a full cache, the third probe of
\* target1 has returned and evicted the result of the first cycle, while
\* target2, still in flight, holds the results of the first two cycles.
C18_Witness ==
    /\ optimizer.CacheSize = 2
    /\ ~optimizer.ExitOnCacheFull
    /\ loop = "Probing"
    /\ cycle = 3
    /\ inFlight = {"target2"}
    /\ Len(Db["target1"]) = 2
    /\ Db["target1"][1].Time = 2
    /\ Db["target1"][2].Time = 3
    /\ Len(Db["target2"]) = 2
    /\ Db["target2"][1].Time = 1

\* The results in the cache window of a peer, as places <<target, index>>.
Cached(peer) == Window(Db, peer)

\* By how much the losses of the window, taken together, lie over the loss
\* threshold: positive exactly when their mean exceeds it.
LossExcess(peer) ==
    Total([place \in Cached(peer) |->
              Db[place[1]][place[2]].PacketLoss - optimizer.PacketLossThreshold])

\* The same for the round-trip times of the answered probes of the window.
LatencyExcess(peer) ==
    Total([place \in {q \in Cached(peer) : Len(Db[q[1]][q[2]].AvgRtt) = 1} |->
              Db[place[1]][place[2]].AvgRtt[1] - optimizer.LatencyThreshold])

OverThreshold(peer) == LossExcess(peer) > 0 \/ LatencyExcess(peer) > 0

\* The peers whose last decision was taken on the caches as they are now.
DecidedOnCaches ==
    IF loop \in {"Deciding", "Idle", "Stopped"} THEN decided ELSE {}

\* After its decision step a peer is depreferred, with the configured
\* reduction as modifier, if loss or latency over its window exceed their
\* threshold, and normal with modifier zero if not; and no peer is ever in
\* another state.
PreferenceFollowsWindow ==
    /\ \A peer \in DecidedOnCaches :
          PreferenceState[peer] =
              IF OverThreshold(peer)
              THEN [state |-> "depreferred", modifier |-> optimizer.LocalPrefModifier]
              ELSE [state |-> "normal", modifier |-> 0]
    /\ \A peer \in OptimizerPeers :
          PreferenceState[peer] \in
              {[state |-> "depreferred", modifier |-> optimizer.LocalPrefModifier],
               [state |-> "normal", modifier |-> 0]}

\* The state of a peer changes only in its decision step, and to depreferred
\* only if a threshold is exceeded over the window of that step.
ChangesOnlyOnDecision ==
    \A peer \in OptimizerPeers :
        PreferenceState'[peer] # PreferenceState[peer] =>
            /\ loop = "Deciding"
            /\ peer \notin decided
            /\ peer \in decided'
            /\ Db' = Db
            /\ PreferenceState'[peer].state = "depreferred" <=> OverThreshold(peer)

\* C19: after every decision step the peer is depreferred with the
\* configured reduction exactly when the aggregate loss or the aggregate
\* latency over the cache window exceeds its threshold, and normal with
\* modifier zero otherwise; a peer, normal at the start, becomes depreferred
\* only in a decision step that finds a threshold exceeded, not before.
C19_PreferenceFollowsThresholds ==
    []PreferenceFollowsWindow /\ [][ChangesOnlyOnDecision]_vars

\* With a cache size of two, target1 was measured without loss in the first
\* cycle and unreachable in the second and third.  peer1 stayed normal in the
\* second cycle, at a loss of exactly the threshold, and was depreferred in
\* the third: its only alert is of the third cycle.
C19_Witness ==
    /\ loop = "Idle"
    /\ cycle = 3
    /\ optimizer.CacheSize = 2
    /\ Db["target1"] = << [Time |-> 2, PacketLoss |-> 100, AvgRtt |-> <<>>],
                          [Time |-> 3, PacketLoss |-> 100, AvgRtt |-> <<>>] >>
    /\ PreferenceState["peer1"] = [state |-> "depreferred", modifier |-> 20]
    /\ \E i \in DOMAIN alerts :
          alerts[i] = [peer |-> "peer1", previous |-> "normal", new |-> "depreferred",
                       time |-> 3]
    /\ \A i \in DOMAIN alerts : alerts[i].peer = "peer1" => alerts[i].time = 3

\* The alert invocations of a log that name a peer.
AlertsOf(log, peer) ==
    SelectSeq(log, LAMBDA alert : alert.peer = peer)

\* The alerts of each peer tell its changes of state one by one: the first
\* leaves "normal", each leaves the state the one before it entered and
\* enters the other state, and the last enters the state the peer is in.
AlertsTellChanges ==
    \A peer \in OptimizerPeers :
        LET told == AlertsOf(alerts, peer)
        IN  /\ \A i \in DOMAIN told :
                  /\ told[i].previous = IF i = 1 THEN "normal" ELSE told[i - 1].new
                  /\ told[i].new # told[i].previous
                  /\ {told[i].previous, told[i].new} = {"normal", "depreferred"}
            /\ PreferenceState[peer].state =
                  IF told = <<>> THEN "normal" ELSE told[Len(told)].new

\* A step that changes the state of a peer makes exactly one alert, with the
\* name of the peer, its previous and its new state; a step that changes the
\* state of no peer makes none.
OneAlertPerChange ==
    LET changed == {peer \in OptimizerPeers :
                        PreferenceState'[peer].state # PreferenceState[peer].state}
    IN  /\ Cardinality(changed) <= 1
        /\ changed = {} => alerts' = alerts
        /\ \A peer \in changed :
              alerts' = Append(alerts, [peer     |-> peer,
                                        previous |-> PreferenceState[peer].state,
                                        new      |-> PreferenceState'[peer].state,
                                        time     |-> cycle])

\* C20: over any run of the loop a peer has as many alerts as its state has
\* changed between "normal" and "depreferred": every change makes exactly one
\* alert, which carries the peer and the new state, and a decision step that
\* leaves the state as it was makes none.
C20_OneAlertPerChange == []AlertsTellChanges /\ [][OneAlertPerChange]_vars

\* With a cache size of one, peer1 has been depreferred in the first cycle,
\* left depreferred in the second, and set back to normal in the third: two
\* alerts after three decisions.
C20_Witness ==
    /\ loop = "Idle"
    /\ cycle = 3
    /\ optimizer.CacheSize = 1
    /\ PreferenceState["peer1"].state = "normal"
    /\ AlertsOf(alerts, "peer1") =
          << [peer |-> "peer1", previous |-> "normal", new |-> "depreferred", time |-> 1],
             [peer |-> "peer1", previous |-> "depreferred", new |-> "normal", time |-> 3] >>

\* The result of the probe of every target in the running cycle is in the
\* cache of the target, as its newest entry, and no probe is in flight.
ResultsOfCycleCached ==
    /\ inFlight = {}
    /\ \A target \in ProbeTargets :
          /\ Db[target] # <<>>
          /\ Db[target][Len(Db[target])].Time = cycle

\* A step of the decision step: a peer is decided, or a preference or the
\* alert log changes.
DecisionTaken ==
    \/ decided' \notin {decided, {}}
    \/ PreferenceState' # PreferenceState
    \/ alerts' # alerts

\* C21: within a cycle the decision step starts only after every probe
\* dispatched in the cycle has returned and its result is in the cache of its
\* target, in whatever order the probes return: while the loop is deciding,
\* and at every step the decision step takes, no probe is in flight and the
\* newest entry of every cache is the result of this cycle, and the caches
\* do not change under the decision step.
C21_DecisionAfterBarrier ==
    /\ [](loop = "Deciding" => ResultsOfCycleCached)
    /\ [][DecisionTaken => ResultsOfCycleCached /\ loop = "Deciding" /\ Db' = Db]_vars

\* The decision step of the second cycle has taken peer2 and the results of
\* the second cycle are in the caches of both targets.
C21_Witness ==
    /\ loop = "Deciding"
    /\ cycle = 2
    /\ decided = {"peer2"}
    /\ Db["target1"][Len(Db["target1"])].Time = 2
    /\ Db["target2"][Len(Db["target2"])].Time = 2
    /\ Db["target1"][Len(Db["target1"])].PacketLoss = 100
    /\ PreferenceState["peer2"].state = "depreferred"

\* The moves of the loop state within a cycle, and the moves that end the loop.
CycleMoves == {<<"Idle", "Probing">>, <<"Probing", "Deciding">>, <<"Deciding", "Idle">>}

EndMoves == {<<"Idle", "Stopped">>, <<"Probing", "Stopped">>, <<"Probing", "Exited">>}

\* Probes are dispatched only by a step that begins the next cycle, and it is
\* taken only by an idle loop: no probe of the cycle before is in flight and
\* its decision step is through every peer.
DispatchedWhenIdle ==
    (cycle' # cycle \/ ~(inFlight' \subseteq inFlight)) =>
        /\ loop = "Idle"
        /\ loop' = "Probing"
        /\ cycle' = cycle + 1
        /\ inFlight = {}
        /\ cycle > 0 => decided = OptimizerPeers

\* The loop ends only on the stop signal it observed or on a full cache.
EndsForAReason ==
    (<<loop, loop'>> \in EndMoves) =>
        observed' \/ (optimizer.ExitOnCacheFull /\ loop' = "Exited")

\* The loop state moves only Idle to Probing to Deciding to Idle.
C22_CyclesAsStated ==
    [][DispatchedWhenIdle /\ (loop' # loop => <<loop, loop'>> \in CycleMoves)]_vars

\* C22: the cycles of the control loop never overlap: no probe of the next
\* cycle is dispatched while a cycle is probing or deciding; and the loop
\* state moves only Idle to Probing to Deciding to Idle, until the loop ends:
\* from Idle or from the fan-in barrier once it observed the stop signal,
\* from Probing on the exit for a full cache.
C22_CyclesNeverOverlap ==
    /\ [][DispatchedWhenIdle]_vars
    /\ [][loop' # loop => <<loop, loop'>> \in CycleMoves \cup EndMoves]_vars
    /\ [][EndsForAReason]_vars
    /\ [](loop \in {"Idle", "Deciding"} => inFlight = {})

\* The probes of the second cycle are dispatched: the first cycle is through,
\* its results are cached and both peers were decided on them.
C22_Witness ==
    /\ loop = "Probing"
    /\ cycle = 2
    /\ inFlight = ProbeTargets
    /\ decided = {}
    /\ \A target \in ProbeTargets : Len(Db[target]) = 1 /\ Db[target][1].Time = 1
    /\ PreferenceState["peer1"].state = "depreferred"

\* Once the loop has observed the stop signal it has observed it for good,
\* and no step begins a cycle or dispatches a probe.
NoCycleOnceObserved ==
    observed => observed' /\ cycle' = cycle /\ inFlight' \subseteq inFlight

\* A probe leaves the set of probes in flight only by returning: one at a
\* time, with its result of the running cycle appended to the cache of its
\* target.
ProbesFinish ==
    (inFlight' # inFlight /\ cycle' = cycle) =>
        \E target \in inFlight :
            /\ inFlight' = inFlight \ {target}
            /\ Len(Db'[target]) > 0
            /\ Db'[target][Len(Db'[target])].Time = cycle
            /\ Db'[target] # Db[target]

\* C23: once the control loop has observed the stop signal no new cycle ever
\* begins and no further probe is dispatched; the probes in flight in the
\* running cycle are not aborted: each still returns and its result goes to
\* its cache, and the loop ends only when none is in flight, with the result
\* of every probe it dispatched in the caches.
C23_NoCycleAfterStop ==
    /\ [][NoCycleOnceObserved]_vars
    /\ [][ProbesFinish]_vars
    /\ [](loop = "Stopped" =>
             /\ observed
             /\ inFlight = {}
             /\ cycle > 0 => ResultsOfCycleCached)

\* The loop observed the stop signal at the barrier of the second cycle and
\* has ended without a decision step, after the probes of both targets
\* returned: their results of the second cycle are in the caches.
C23_Witness ==
    /\ loop = "Stopped"
    /\ observed
    /\ cycle = 2
    /\ decided = {}
    /\ Db["target1"][Len(Db["target1"])].Time = 2
    /\ Db["target2"][Len(Db["target2"])].Time = 2

\* A step evicts from the cache of a target: the oldest entry goes.
Evicts(target) ==
    /\ Db[target] # <<>>
    /\ Db'[target] # Db[target]
    /\ Db'[target] = Append(Tail(Db[target]), Db'[target][Len(Db'[target])])

\* With exit-on-cache-full the result of a probe that returns to a full cache
\* ends the loop and leaves every cache as it is; nothing is ever evicted.
ExitsInsteadOfEvicting ==
    optimizer.ExitOnCacheFull =>
        /\ \A target \in ProbeTargets : ~Evicts(target)
        /\ \A target \in ProbeTargets :
              (inFlight' # inFlight /\ target \in inFlight \ inFlight') =>
                  Len(Db[target]) < optimizer.CacheSize
        /\ (loop = "Probing" /\ loop' = "Exited") =>
              /\ Db' = Db
              /\ \E target \in inFlight : Len(Db[target]) = optimizer.CacheSize

\* Without it the loop never ends for a full cache: a result that returns to
\* a full cache evicts the oldest entry.
KeepsEvicting ==
    ~optimizer.ExitOnCacheFull =>
        /\ loop' # "Exited"
        /\ \A target \in ProbeTargets :
              (target \in inFlight \ inFlight' /\ Len(Db[target]) = optimizer.CacheSize) =>
                  Evicts(target)

\* C24: with exit-on-cache-full enabled, when a probe result arrives for a
\* target whose cache is at full capacity the control loop terminates itself
\* instead of evicting, so no cache ever loses an entry; with it disabled
\* the loop never terminates for that reason and evicts the oldest entry.
C24_ExitOnCacheFull ==
    /\ [][ExitsInsteadOfEvicting]_vars
    /\ [][KeepsEvicting]_vars
    /\ [](loop = "Exited" => optimizer.ExitOnCacheFull)
    /\ [](optimizer.ExitOnCacheFull =>
             \A target \in ProbeTargets : Db[target] # <<>> => Db[target][1].Time = 1)

\* With a cache of one entry, filled in the first cycle, the loop has ended
\* in the second cycle on the return of a probe, and the caches still hold
\* the results of the first cycle.
C24_Witness ==
    /\ optimizer.ExitOnCacheFull
    /\ optimizer.CacheSize = 1
    /\ loop = "Exited"
    /\ cycle = 2
    /\ \A target \in ProbeTargets : Len(Db[target]) = 1 /\ Db[target][1].Time = 1

(***************************************************************************)
(* Properties of Load: the global part                                     *)
(***************************************************************************)
\* C25: after Load, QueryNVRS is true if and only if at least one peer has
\* the never-via-route-servers filter resolved to true, from the peer itself
\* or from its template.
C25_QueryNVRS ==
    outcome = "config" =>
        (c.QueryNVRS <=>
            \E p \in LivePeers : Holds(p, "FilterNeverViaRouteServers", TRUE))

(***************************************************************************)
(* Properties of the Load of internal/embed/templates/peer.tmpl            *)
(***************************************************************************)
\* The prefixes of peer p as resolved: its own, else those of its template.
TmplPrefixesOf(p) ==
    IF configBlob.Peers[p].Prefixes # NilPtr THEN configBlob.Peers[p].Prefixes[1]
    ELSE IF configBlob.Peers[p].Template = NilPtr THEN <<>>
    ELSE IF configBlob.Peers[p].Template[1] \notin DOMAIN configBlob.Templates THEN <<>>
    ELSE IF configBlob.Templates[configBlob.Peers[p].Template[1]].Prefixes = NilPtr THEN <<>>
    ELSE configBlob.Templates[configBlob.Peers[p].Template[1]].Prefixes[1]

TmplSetOf(p, f) == IF c.Peers[p][f] = NilPtr THEN <<>> ELSE c.Peers[p][f][1]

\* C26: the Load of peer.tmpl never crashes, and when it returns a config
\* the prefixes of every peer are split by family: those with a 4-byte form
\* in PrefixSet4, the others in PrefixSet6.
C26_TmplPrefixSets ==
    /\ outcome # "panic"
    /\ outcome = "config" =>
          \A p \in DOMAIN configBlob.Peers :
              IsPartitionByFamily(TmplPrefixesOf(p), TmplSetOf(p, "PrefixSet4"),
                                  TmplSetOf(p, "PrefixSet6"))

\* The VRRP instances of the document with a body.
LiveVRRP == {name \in DOMAIN configBlob.VRRPInstances : ~configBlob.VRRPInstances[name].null}

\* The states and the VIPs of the document that Load does not take.
BadVRRPStates ==
    {configBlob.VRRPInstances[name].State :
        name \in {n \in LiveVRRP : configBlob.VRRPInstances[n].State \notin {"primary", "backup"}}}

BadVIPs ==
    UNION {{configBlob.VRRPInstances[name].VIPs[i] :
               i \in {k \in DOMAIN configBlob.VRRPInstances[name].VIPs :
                         ~IsCIDR(configBlob.VRRPInstances[name].VIPs[k])}} :
           name \in LiveVRRP}

\* C27: after a successful Load every VRRP instance has the state "MASTER"
\* if the document says "primary" and "BACKUP" if it says "backup", and its
\* VIPs are split by family into VIPs4 and VIPs6, in input order.  With
\* another state or a VIP that is no CIDR Load returns no Config; the error
\* it returns for a VRRP instance names a state or a VIP of the document
\* that is at fault; and it returns such an error whenever nothing else is
\* wrong with the document.
C27_VRRPInstances ==
    /\ outcome = "config" =>
          \A name \in DOMAIN configBlob.VRRPInstances :
              /\ name \in LiveVRRP
              /\ name \in DOMAIN c.VRRPInstances
              /\ configBlob.VRRPInstances[name].State = "primary" =>
                    c.VRRPInstances[name].State = "MASTER"
              /\ configBlob.VRRPInstances[name].State = "backup" =>
                    c.VRRPInstances[name].State = "BACKUP"
              /\ c.VRRPInstances[name].State \in {"MASTER", "BACKUP"}
              /\ IsPartitionByFamily(configBlob.VRRPInstances[name].VIPs,
                                     c.VRRPInstances[name].VIPs4,
                                     c.VRRPInstances[name].VIPs6)
    /\ (BadVRRPStates # {} \/ BadVIPs # {}) =>
          /\ outcome # "config"
          /\ (DocFaults = {"vrrp"} /\ pc = "done") =>
                /\ outcome = "error"
                /\ err.msg \in {"Invalid VIP: ",
                                "VRRP state must be 'primary' or 'backup', unexpected "}
    /\ err.msg = "Invalid VIP: " =>
          /\ outcome = "error"
          /\ err.arg[1] \in BadVIPs
    /\ err.msg = "VRRP state must be 'primary' or 'backup', unexpected " =>
          /\ outcome = "error"
          /\ err.arg[1] \in BadVRRPStates

\* Load has returned a Config with two VRRP instances: the primary one is
\* MASTER, and the backup one is BACKUP with its IPv4 VIP in VIPs4 and its
\* IPv6 VIP in VIPs6.
C27_Witness ==
    /\ outcome = "config"
    /\ DOMAIN c.VRRPInstances = {"vip", "vip2"}
    /\ c.VRRPInstances["vip"].State = "MASTER"
    /\ c.VRRPInstances["vip2"].State = "BACKUP"
    /\ c.VRRPInstances["vip2"].VIPs4 = <<"192.0.2.0/24">>
    /\ c.VRRPInstances["vip2"].VIPs6 = <<"2001:db8::/32">>

\* The announce-originated cells: those of the peers and templates that set
\* the field, or got it as default.
AnnounceCells(cells) == {a \in DOMAIN cells : a[3] = "AnnounceOriginated"}

\* No step turns an announce-originated on; and with an origin prefix in the
\* document no step changes one at all.
AnnounceOriginatedKept ==
    \A a \in AnnounceCells(heap) :
        /\ a \in AnnounceCells(heap')
        /\ heap[a] = FALSE => heap'[a] = FALSE
        /\ configBlob.Prefixes # <<>> => heap'[a] = heap[a]

\* C29: with an origin prefix in the document, a successful Load leaves the
\* announce-originated of every peer at the value of the peer, else of its
\* template, else at the default, true as true and false as false: the
\* normalization changes none; and it never turns one on.
C29_AnnounceOriginatedKept ==
    /\ []((outcome = "config" /\ configBlob.Prefixes # <<>>) =>
             \A p \in LivePeers :
                 Holds(p, "AnnounceOriginated", ExpectedValue(p, "AnnounceOriginated")))
    /\ [][AnnounceOriginatedKept]_vars

\* Load has returned a Config for a document with an origin prefix: p1 set
\* announce-originated to true itself and holds true, p2 took false from
\* the template and holds false.
C29_Witness ==
    /\ outcome = "config"
    /\ configBlob.Prefixes # <<>>
    /\ LivePeers = {"p1", "p2"}
    /\ "AnnounceOriginated" \in DOMAIN OwnKeys("p1")
    /\ OwnKeys("p1")["AnnounceOriginated"] = TRUE
    /\ "AnnounceOriginated" \notin DOMAIN OwnKeys("p2")
    /\ "AnnounceOriginated" \in DOMAIN TemplateKeys("p2")
    /\ TemplateKeys("p2")["AnnounceOriginated"] = FALSE
    /\ Holds("p1", "AnnounceOriginated", TRUE)
    /\ Holds("p2", "AnnounceOriginated", FALSE)

PeerOrders ==
    {order \in [1..Cardinality(DOMAIN configBlob.Peers) -> DOMAIN configBlob.Peers] :
        \A i, j \in DOMAIN order : order[i] = order[j] => i = j}

\* The first and the second range over the peers, taken in a given order.
RECURSIVE ResolvedInOrder(_, _)
ResolvedInOrder(st, order) ==
    IF order = <<>> THEN st
    ELSE ResolvedInOrder(PeerResolved(st, Head(order)), Tail(order))

RECURSIVE FinishedInOrder(_, _)
FinishedInOrder(st, order) ==
    IF order = <<>> THEN st
    ELSE FinishedInOrder(PeerFinished(st, Head(order)), Tail(order))

\* The peers, the templates, the cells behind their pointers and QueryNVRS
\* as Load leaves them when its two ranges take the orders first and second.
LoadedInOrder(first, second) ==
    FinishedInOrder(
        ResolvedInOrder([c |-> DecodeConfig(configBlob), heap |-> DecodeHeap(configBlob)],
                        first),
        second)

SameAsLoaded(st) ==
    /\ st.c.Peers = c.Peers
    /\ st.c.Templates = c.Templates
    /\ st.c.QueryNVRS = c.QueryNVRS
    /\ st.heap = heap

\* The global config without the parts the ranges over the peers work on.
GlobalPart(cfg) == [f \in DOMAIN cfg \ {"Peers", "QueryNVRS"} |-> cfg[f]]

\* Load is in a range over the templates or the peers, with a key to visit.
InRange ==
    \/ pc = "templates" /\ visited # DOMAIN c.Templates
    \/ pc \in {"peers", "finish"} /\ visited # DOMAIN c.Peers

\* C28: the outcome of Load does not depend on the order in which the maps
\* of peers and templates are iterated.  Whether Load succeeds is decided by
\* the document alone, and by the system's answer when the document leaves
\* the hostname to it: Load returns a Config exactly if the document has no
\* fault and the hostname is known.  And on success every field of every peer and template, and
\* QueryNVRS, are what the two ranges over the peers give in every order
\* they can take; the rest of the global config is not touched by them.
C28_OrderIndependent ==
    /\ [](pc = "done" =>
             (outcome = "config" <=>
                 /\ DocFaults \ {"hostname"} = {}
                 /\ err.msg # "Hostname is not defined and unable to get system hostname: %s"))
    /\ [](outcome = "config" =>
             \A first \in PeerOrders : \A second \in PeerOrders :
                 SameAsLoaded(LoadedInOrder(first, second)))
    /\ [][InRange => GlobalPart(c') = GlobalPart(c)]_vars

\* Load has returned a Config for two peers that share a template, one with
\* a field of its own; the ranges could take the peers in either order.
C28_Witness ==
    /\ outcome = "config"
    /\ LivePeers = {"p1", "p2"}
    /\ NamesExistingTemplate("p1")
    /\ NamesExistingTemplate("p2")
    /\ configBlob.Prefixes = <<>>
    /\ "AnnounceOriginated" \in DOMAIN TemplateKeys("p1")
    /\ c.Peers["p1"].field["AnnounceOriginated"] = c.Peers["p2"].field["AnnounceOriginated"]
    /\ Cardinality(PeerOrders) = 2

====
